---- MODULE Spec2Model ----
(***************************************************************************)
(* The file-backed vector index store of scrag                             *)
(* (src/scrag/core/rag/stores/file_store.py, FileIndexStore): one store    *)
(* instance in one process, the index file and the temporary file it       *)
(* writes, and the environment faults the store's error handling is        *)
(* written for (a failing write, a crash, a damaged index file).           *)
(*                                                                         *)
(* Embedding components are fixed-point numbers (tenths): <<8, 0, 6>> is   *)
(* the vector [0.8, 0.0, 0.6].  Cosine similarity is scale invariant, and  *)
(* every comparison of similarities is done exactly, on squares, so the    *)
(* model is the real-number reading of the numpy code.                     *)
(***************************************************************************)
EXTENDS Integers, Sequences, FiniteSets, TLC

VARIABLES
    documents,            \* self._documents : id -> IndexDocument
    doc_ids,              \* self._doc_ids : the ordered id list
    embeddings,           \* self._embeddings : None or the matrix (a row per id)
    embedding_dimension,  \* self.embedding_dimension
    index_file,           \* what is stored at self.index_path
    temp_file,            \* what is stored at index_path.with_suffix('.tmp')
    pc,                   \* position of the process: idle (between calls), inside
                          \* _save_index, returned (a call has just returned), down
    call,                 \* the call in progress or last finished: arguments, result,
                          \* and the store as it was when the call began
    save,                 \* the index file before the save in progress and the data it writes
    faults,               \* number of environment faults so far
    argsort_kind          \* the order np.argsort of this installation gives equal keys

store_vars == <<documents, doc_ids, embeddings, embedding_dimension>>
disk_vars == <<index_file, temp_file>>
vars == <<documents, doc_ids, embeddings, embedding_dimension, index_file, temp_file,
          pc, call, save, faults, argsort_kind>>

----------------------------------------------------------------------------
(* Bounds of the model *)

MaxBatch == 2      \* longest batch handed to add_documents
MaxTopK == 3       \* largest top_k of a query
MaxFaults == 1     \* environment faults in one behaviour

----------------------------------------------------------------------------
(* Values *)

NoMeta == [k \in {} |-> "none"]
MetaAi == [topic |-> "ai"]
MetaFood == [topic |-> "food"]

IndexDocument(id, content, embedding, metadata) ==
    [id |-> id, content |-> content, embedding |-> embedding, metadata |-> metadata]

\* The documents callers hand to add_documents: per id a few versions, of
\* dimension 3 and of dimension 2, one of them with a zero vector.
DocPool ==
    { IndexDocument("doc1", "machine learning", <<10, 0, 0>>, MetaAi),
      IndexDocument("doc1", "machine learning v2", <<0, 10, 0>>, MetaFood),
      IndexDocument("doc1", "short", <<3, 4>>, NoMeta),
      IndexDocument("doc2", "cooking recipes", <<0, 10, 0>>, MetaFood),
      IndexDocument("doc2", "nothing", <<0, 0, 0>>, NoMeta),
      IndexDocument("doc3", "neural networks", <<8, 0, 6>>, MetaAi),
      IndexDocument("doc3", "short", <<0, 1>>, MetaAi) }

DocIds == {d.id : d \in DocPool}

CtorDims == {2, 3}

SeqsUpTo(S, n) == UNION {[1..k -> S] : k \in 0..n}

Batches == SeqsUpTo(DocPool, MaxBatch)

NoMatrix == [present |-> FALSE, rows |-> <<>>]
Matrix(rows) == [present |-> TRUE, rows |-> rows]

Store(docs, ids, emb, dim) ==
    [documents |-> docs, doc_ids |-> ids, embeddings |-> emb, embedding_dimension |-> dim]

EmptyStore(dim) == Store(NoMeta, <<>>, NoMatrix, dim)

Self == Store(documents, doc_ids, embeddings, embedding_dimension)

\* list.index(x): the first position of x
ListIndex(seq, x) ==
    CHOOSE i \in 1..Len(seq) : seq[i] = x /\ \A j \in 1..(i - 1) : seq[j] # x

RemoveAt(seq, idx) == [i \in 1..(Len(seq) - 1) |-> IF i < idx THEN seq[i] ELSE seq[i + 1]]

DictPut(d, k, v) == [x \in DOMAIN d \cup {k} |-> IF x = k THEN v ELSE d[x]]
DictDel(d, k) == [x \in DOMAIN d \ {k} |-> d[x]]

----------------------------------------------------------------------------
(* add_documents: the loop over the batch *)

\* the dimension test of the loop body: TRUE when the document is skipped
DimensionMismatch(st, doc) == Len(doc.embedding) # st.embedding_dimension

\* the update branch leaving the matrix row as it was
M_UpdateExisting_StaleRow(st, doc) ==
    [st EXCEPT !.documents = [@ EXCEPT ![doc.id] = doc]]

\* the update branch
UpdateExisting(st, doc) ==
    LET idx == ListIndex(st.doc_ids, doc.id) IN
    [st EXCEPT !.documents = [@ EXCEPT ![doc.id] = doc],
               !.embeddings = IF @.present
                              THEN Matrix([@.rows EXCEPT ![idx] = doc.embedding])
                              ELSE @]

\* the insert branch
AddNew(st, doc) ==
    [st EXCEPT !.documents = DictPut(@, doc.id, doc),
               !.doc_ids = Append(@, doc.id),
               !.embeddings = IF ~@.present
                              THEN Matrix(<<doc.embedding>>)
                              ELSE Matrix(Append(@.rows, doc.embedding))]

\* add_documents without its update branch
M_AddOne_AlwaysAppend(st, doc) ==
    IF DimensionMismatch(st, doc) THEN st ELSE AddNew(st, doc)

AddOne(st, doc) ==
    IF DimensionMismatch(st, doc) THEN st
    ELSE IF doc.id \in DOMAIN st.documents THEN UpdateExisting(st, doc)
    ELSE AddNew(st, doc)

\* add_documents giving up the batch at the first mismatching document
RECURSIVE M_AddLoop_StopAtMismatch(_, _)
M_AddLoop_StopAtMismatch(st, batch) ==
    IF batch = <<>> \/ DimensionMismatch(st, Head(batch)) THEN st
    ELSE M_AddLoop_StopAtMismatch(AddOne(st, Head(batch)), Tail(batch))

RECURSIVE AddLoop(_, _)
AddLoop(st, batch) ==
    IF batch = <<>> THEN st ELSE AddLoop(AddOne(st, Head(batch)), Tail(batch))

----------------------------------------------------------------------------
(* delete_document, clear, get_document, get_stats *)

\* delete_document without the branch for the last row
M_DeleteFrom_ZeroRows(st, doc_id) ==
    LET idx == ListIndex(st.doc_ids, doc_id) IN
    [st EXCEPT !.documents = DictDel(@, doc_id),
               !.doc_ids = RemoveAt(@, idx),
               !.embeddings = IF @.present THEN Matrix(RemoveAt(@.rows, idx)) ELSE @]

DeleteFrom(st, doc_id) ==
    LET idx == ListIndex(st.doc_ids, doc_id) IN
    [st EXCEPT !.documents = DictDel(@, doc_id),
               !.doc_ids = RemoveAt(@, idx),
               !.embeddings = IF @.present
                              THEN IF Len(@.rows) = 1 THEN NoMatrix
                                   ELSE Matrix(RemoveAt(@.rows, idx))
                              ELSE @]

Cleared(st) == [st EXCEPT !.documents = NoMeta, !.doc_ids = <<>>, !.embeddings = NoMatrix]

NoDocument == [id |-> "", content |-> "", embedding |-> <<>>, metadata |-> NoMeta]

GetDocument(st, doc_id) ==
    IF doc_id \in DOMAIN st.documents THEN st.documents[doc_id] ELSE NoDocument

GetStats(st) ==
    [total_documents |-> Cardinality(DOMAIN st.documents),
     embedding_dimension |-> st.embedding_dimension]

----------------------------------------------------------------------------
(* search: cosine similarity, threshold, sort, top_k, filters *)

RECURSIVE DotFrom(_, _, _)
DotFrom(a, b, i) == IF i > Len(a) THEN 0 ELSE a[i] * b[i] + DotFrom(a, b, i + 1)

Dot(a, b) == DotFrom(a, b, 1)

Sign(x) == IF x > 0 THEN 1 ELSE IF x < 0 THEN -1 ELSE 0

\* One entry of `similarities`: the cosine num / sqrt(den2) of a row and the
\* query, or nan when the row or the query has norm 0 (numpy divides 0 by 0).
Similarity(row, q) ==
    [nan |-> Dot(row, row) = 0 \/ Dot(q, q) = 0,
     num |-> Dot(row, q),
     den2 |-> Dot(row, row) * Dot(q, q)]

\* s1 >= s2 for two similarities that are not nan
ScoreGeq(s1, s2) ==
    Sign(s1.num) * s1.num * s1.num * s2.den2 >= Sign(s2.num) * s2.num * s2.num * s1.den2

\* similarities >= query.threshold, the threshold being t[1] / t[2]; a
\* comparison with nan is False
PassesThreshold(s, t) ==
    /\ ~s.nan
    /\ LET a == t[2] * s.num
           b == t[1]
       IN Sign(a) * a * a >= Sign(b) * b * b * s.den2

\* the positions i with valid_indices[i], in order
RECURSIVE ValidFrom(_, _, _)
ValidFrom(sims, t, i) ==
    IF i > Len(sims) THEN <<>>
    ELSE (IF PassesThreshold(sims[i], t) THEN <<i>> ELSE <<>>) \o ValidFrom(sims, t, i + 1)

IndexOrders(m) == {p \in [1..m -> 1..m] : \A i, j \in 1..m : i # j => p[i] # p[j]}

\* np.argsort(similarities): an index order that sorts ascending.  The
\* default sort is not a stable one, so equal values may come in any order.
ArgsortOutcomes(sims) ==
    {p \in IndexOrders(Len(sims)) :
        \A i, j \in 1..Len(sims) : i < j => ScoreGeq(sims[p[j]], sims[p[i]])}

\* Which of two equal keys np.argsort puts first is not documented: it
\* depends on the sort the installed numpy picks (insertion sort keeps the
\* lower index first, the vectorised sorts do not).  It is a function of the
\* input all the same: one process sorts one array one way.
ArgsortKinds == {"lower_index_first", "higher_index_first"}

Argsort(sims, kind) ==
    CHOOSE p \in ArgsortOutcomes(sims) :
        \A i, j \in 1..Len(sims) :
            (i < j /\ ScoreGeq(sims[p[i]], sims[p[j]])) =>
                IF kind = "lower_index_first" THEN p[i] < p[j] ELSE p[i] > p[j]

\* the sort order left ascending
M_Reverse_Ascending(seq) == seq

\* [::-1]
Reverse(seq) == [i \in 1..Len(seq) |-> seq[Len(seq) + 1 - i]]

Take(seq, k) == [i \in 1..(IF k < Len(seq) THEN k ELSE Len(seq)) |-> seq[i]]

\* a document matches when one of the keys does
M_MatchesFilters_AnyKey(doc, filters) ==
    \E key \in DOMAIN filters :
        (IF key \in DOMAIN doc.metadata THEN doc.metadata[key] ELSE "None") = filters[key]

\* _matches_filters
MatchesFilters(doc, filters) ==
    \A key \in DOMAIN filters :
        (IF key \in DOMAIN doc.metadata THEN doc.metadata[key] ELSE "None") = filters[key]

RECURSIVE ResultsFrom(_, _, _, _, _)
ResultsFrom(st, valid_sims, valid_doc_ids, top_indices, filters) ==
    IF top_indices = <<>> THEN <<>>
    ELSE LET idx == Head(top_indices)
             doc == st.documents[valid_doc_ids[idx]]
         IN (IF MatchesFilters(doc, filters)
             THEN <<[document |-> doc, score |-> valid_sims[idx]]>> ELSE <<>>)
            \o ResultsFrom(st, valid_sims, valid_doc_ids, Tail(top_indices), filters)

\* the results search(query) can return
SearchOutcomes(st, query) ==
    IF ~st.embeddings.present \/ Len(st.doc_ids) = 0 THEN {<<>>}
    ELSE IF \E i \in 1..Len(st.embeddings.rows) :
                Len(st.embeddings.rows[i]) # Len(query.embedding)
    THEN {<<>>}     \* np.dot raises on the shapes, the except branch returns []
    ELSE LET sims == [i \in 1..Len(st.embeddings.rows) |->
                         Similarity(st.embeddings.rows[i], query.embedding)]
             valid == ValidFrom(sims, query.threshold, 1)
             valid_sims == [i \in 1..Len(valid) |-> sims[valid[i]]]
             valid_doc_ids == [i \in 1..Len(valid) |-> st.doc_ids[valid[i]]]
         IN {ResultsFrom(st, valid_sims, valid_doc_ids,
                         Take(Reverse(p), query.top_k), query.filters) :
                p \in ArgsortOutcomes(valid_sims)}

SearchQuery(embedding, top_k, filters, threshold) ==
    [embedding |-> embedding, top_k |-> top_k, filters |-> filters, threshold |-> threshold]

QueryVectors == {<<9, 1, 0>>, <<9, 0, 3>>, <<0, 0, 0>>, <<1, 0>>}
Thresholds == {<<-1, 1>>, <<0, 1>>, <<1, 2>>}
\* filters with two keys; no stored document has the key "lang"
FiltersAiEn == [topic |-> "ai", lang |-> "en"]
FilterSets == {NoMeta, MetaAi, FiltersAiEn}
Queries == {SearchQuery(q, k, f, t) :
               q \in QueryVectors, k \in 1..MaxTopK, f \in FilterSets, t \in Thresholds}

----------------------------------------------------------------------------
(* The index file: _save_index and _load_index *)

Absent == [kind |-> "absent"]
Garbage == [kind |-> "garbage"]     \* text json.load cannot parse (also a cut-off write)

\* the dictionary _save_index serialises
SaveData(st) ==
    [kind |-> "json",
     embedding_dimension |-> st.embedding_dimension,
     documents |-> [i \in 1..Len(st.doc_ids) |->
                      LET doc == st.documents[st.doc_ids[i]] IN
                      [id |-> doc.id, content |-> doc.content,
                       embedding |-> doc.embedding, metadata |-> doc.metadata]],
     stats |-> GetStats(st)]

\* a record of the file the loop of _load_index can read
RecordReadable(doc_data) == {"id", "content", "embedding"} \subseteq DOMAIN doc_data

\* the loop of _load_index; ok = FALSE when a record raised
RECURSIVE LoadLoop(_, _)
LoadLoop(acc, records) ==
    IF records = <<>> THEN acc
    ELSE LET doc_data == Head(records) IN
         IF ~RecordReadable(doc_data) THEN [acc EXCEPT !.ok = FALSE]
         ELSE LET doc == IndexDocument(doc_data.id, doc_data.content, doc_data.embedding,
                                       IF "metadata" \in DOMAIN doc_data
                                       THEN doc_data.metadata ELSE NoMeta)
              IN LoadLoop([acc EXCEPT !.documents = DictPut(@, doc.id, doc),
                                      !.doc_ids = Append(@, doc.id),
                                      !.list = Append(@, doc.embedding)],
                          Tail(records))

\* what the except branch of _load_index leaves
LoadFailed(dim) == EmptyStore(dim)

\* _load_index keeping the dimension the constructor was given
M_LoadIndex_KeepCtorDim(dim, file) ==
    IF file.kind # "json" THEN LoadFailed(dim)
    ELSE LET r == LoadLoop([ok |-> TRUE, documents |-> NoMeta, doc_ids |-> <<>>,
                            list |-> <<>>], file.documents)
         IN IF ~r.ok THEN LoadFailed(dim)
            ELSE Store(r.documents, r.doc_ids,
                       IF r.list # <<>> THEN Matrix(r.list) ELSE NoMatrix, dim)

\* _load_index whose except branch keeps what the loop had loaded
M_LoadIndex_KeepPartial(dim, file) ==
    IF file.kind # "json" THEN LoadFailed(dim)
    ELSE LET r == LoadLoop([ok |-> TRUE, documents |-> NoMeta, doc_ids |-> <<>>,
                            list |-> <<>>], file.documents)
         IN IF ~r.ok THEN Store(r.documents, r.doc_ids, NoMatrix, dim)
            ELSE Store(r.documents, r.doc_ids,
                       IF r.list # <<>> THEN Matrix(r.list) ELSE NoMatrix,
                       file.embedding_dimension)

\* the state of a store constructed with dimension dim on an existing file
LoadIndex(dim, file) ==
    IF file.kind # "json" THEN LoadFailed(dim)
    ELSE LET r == LoadLoop([ok |-> TRUE, documents |-> NoMeta, doc_ids |-> <<>>,
                            list |-> <<>>], file.documents)
         IN IF ~r.ok THEN LoadFailed(dim)
            ELSE Store(r.documents, r.doc_ids,
                       IF r.list # <<>> THEN Matrix(r.list) ELSE NoMatrix,
                       file.embedding_dimension)

\* FileIndexStore(index_path, embedding_dimension = dim)
Construct(dim, file) ==
    IF file.kind # "absent" THEN LoadIndex(dim, file) ELSE EmptyStore(dim)

\* _save_index writing straight onto the index file
M_TempTarget_InPlace == "index_file"

\* where _save_index writes first: index_path.with_suffix('.tmp'), a file
\* beside the index file (the index path does not itself end in .tmp)
TempTarget == "temp_file"

\* clear() emptying the index file instead of removing it
M_ClearedFile_Truncate(file) ==
    IF file.kind # "absent" THEN [file EXCEPT !.documents = <<>>] ELSE file

\* clear(): the index file once `if exists(): unlink()` has run
ClearedFile(file) == IF file.kind # "absent" THEN Absent ELSE file

\* handlers that let the exception of _save_index through
M_HandlerResult_Raise(saved) == IF saved THEN "true" ELSE "raised"

\* what add_documents and delete_document return after _save_index
HandlerResult(saved) == IF saved THEN "true" ELSE "false"

----------------------------------------------------------------------------
(* Bookkeeping of calls *)

NoSave == [prev |-> Absent, data |-> Absent]

InSave == pc \in {"open_temp", "dump", "rename"}

NoCall == [op |-> "none", ret |-> "none"]

Snapshot == [store |-> Self, file |-> index_file]

SetSelf(st) ==
    /\ documents' = st.documents
    /\ doc_ids' = st.doc_ids
    /\ embeddings' = st.embeddings
    /\ embedding_dimension' = st.embedding_dimension

Init ==
    /\ \E dim \in CtorDims :
          /\ documents = EmptyStore(dim).documents
          /\ doc_ids = EmptyStore(dim).doc_ids
          /\ embeddings = EmptyStore(dim).embeddings
          /\ embedding_dimension = EmptyStore(dim).embedding_dimension
          /\ call = [op |-> "open", dim |-> dim, ret |-> "ok",
                     pre |-> [store |-> EmptyStore(dim), file |-> Absent],
                     after |-> "start", after_ret |-> "ok"]
    /\ index_file = Absent
    /\ temp_file = Absent
    /\ pc = "returned"
    /\ save = NoSave
    /\ faults = 0
    /\ argsort_kind \in ArgsortKinds

----------------------------------------------------------------------------
(* Operations of the store *)

\* add_documents(batch) up to the call of _save_index
AddDocuments(batch) ==
    /\ pc = "idle"
    /\ LET st == AddLoop(Self, batch) IN
          /\ SetSelf(st)
          /\ save' = [prev |-> index_file, data |-> SaveData(st)]
    /\ call' = [op |-> "add", batch |-> batch, ret |-> "pending", save_error |-> FALSE,
                pre |-> Snapshot]
    /\ pc' = "open_temp"
    /\ UNCHANGED <<index_file, temp_file, faults, argsort_kind>>

\* delete_document(doc_id): an absent id returns False at once
DeleteDocument(doc_id) ==
    /\ pc = "idle"
    /\ IF doc_id \notin DOMAIN documents
       THEN /\ call' = [op |-> "delete", id |-> doc_id, ret |-> "false",
                        save_error |-> FALSE, pre |-> Snapshot]
            /\ pc' = "returned"
            /\ UNCHANGED <<store_vars, save>>
       ELSE LET st == DeleteFrom(Self, doc_id) IN
            /\ SetSelf(st)
            /\ save' = [prev |-> index_file, data |-> SaveData(st)]
            /\ call' = [op |-> "delete", id |-> doc_id, ret |-> "pending",
                        save_error |-> FALSE, pre |-> Snapshot]
            /\ pc' = "open_temp"
    /\ UNCHANGED <<index_file, temp_file, faults, argsort_kind>>

\* _save_index: open(temp_path, 'w') truncates the temporary file
SaveOpenTemp ==
    /\ pc = "open_temp"
    /\ IF TempTarget = "temp_file"
       THEN temp_file' = Garbage /\ UNCHANGED index_file
       ELSE index_file' = Garbage /\ UNCHANGED temp_file
    /\ pc' = "dump"
    /\ UNCHANGED <<store_vars, call, save, faults, argsort_kind>>

\* _save_index: json.dump writes the whole dictionary, the file is closed
SaveDump ==
    /\ pc = "dump"
    /\ IF TempTarget = "temp_file"
       THEN temp_file' = save.data /\ UNCHANGED index_file
       ELSE index_file' = save.data /\ UNCHANGED temp_file
    /\ pc' = "rename"
    /\ UNCHANGED <<store_vars, call, save, faults, argsort_kind>>

\* _save_index: temp_path.rename(index_path); the handler returns True
SaveRename ==
    /\ pc = "rename"
    /\ IF TempTarget = "temp_file"
       THEN index_file' = temp_file /\ temp_file' = Absent
       ELSE UNCHANGED <<index_file, temp_file>>
    /\ pc' = "returned"
    /\ call' = [call EXCEPT !.ret = HandlerResult(TRUE)]
    /\ UNCHANGED <<store_vars, save, faults, argsort_kind>>

\* search(query): reads the store, changes nothing
Search(query) ==
    /\ pc = "idle"
    /\ \E results \in SearchOutcomes(Self, query) :
          call' = [op |-> "search", query |-> query, results |-> results, ret |-> "ok",
                   pre |-> Snapshot]
    /\ pc' = "returned"
    /\ UNCHANGED <<store_vars, index_file, temp_file, save, faults, argsort_kind>>

\* clear()
Clear ==
    /\ pc = "idle"
    /\ SetSelf(Cleared(Self))
    /\ index_file' = ClearedFile(index_file)
    /\ call' = [op |-> "clear", ret |-> "true", pre |-> Snapshot]
    /\ pc' = "returned"
    /\ UNCHANGED <<temp_file, save, faults, argsort_kind>>

\* a new FileIndexStore(index_path, dim) replaces the instance, between two
\* calls or right after one, or starts the process again after a crash
Open(dim) ==
    /\ pc \in {"idle", "returned", "down"}
    /\ SetSelf(Construct(dim, index_file))
    /\ call' = [op |-> "open", dim |-> dim, ret |-> "ok", pre |-> Snapshot,
                after |-> call.op, after_ret |-> call.ret]
    /\ pc' = "returned"
    /\ UNCHANGED <<index_file, temp_file, save, faults, argsort_kind>>

\* the caller has taken the result of the call; the next call can begin
Return ==
    /\ pc = "returned"
    /\ pc' = "idle"
    /\ call' = NoCall
    /\ save' = NoSave
    /\ UNCHANGED <<store_vars, index_file, temp_file, faults, argsort_kind>>

\* the steps every behaviour has, whatever the calls are
Steps ==
    \/ \E doc_id \in DocIds : DeleteDocument(doc_id)
    \/ SaveOpenTemp
    \/ SaveDump
    \/ SaveRename
    \/ Clear
    \/ \E dim \in CtorDims : Open(dim)
    \/ Return

Next ==
    \/ \E batch \in Batches : AddDocuments(batch)
    \/ \E query \in Queries : Search(query)
    \/ Steps

Spec == Init /\ [][Next]_vars

----------------------------------------------------------------------------
(* Environment faults *)

\* the memory of a process that is not running
NoProcess == EmptyStore(0)

\* the process dies, at any point of any call; the files stay as they are.
\* Outside _save_index no write is under way: the state before and the
\* state after are both what the index file holds.
Crash ==
    /\ pc # "down"
    /\ faults < MaxFaults
    /\ faults' = faults + 1
    /\ SetSelf(NoProcess)
    /\ call' = [op |-> "crash", ret |-> "none", during |-> pc, interrupted |-> call.op]
    /\ pc' = "down"
    /\ save' = IF InSave THEN save ELSE [prev |-> index_file, data |-> index_file]
    /\ UNCHANGED <<index_file, temp_file, argsort_kind>>

\* open, json.dump or rename raises inside _save_index: the except branch of
\* _save_index logs and re-raises, the except branch of the handler returns
SaveFails ==
    /\ InSave
    /\ faults < MaxFaults
    /\ faults' = faults + 1
    /\ call' = [call EXCEPT !.ret = HandlerResult(FALSE), !.save_error = TRUE]
    /\ pc' = "returned"
    /\ UNCHANGED <<store_vars, index_file, temp_file, save, argsort_kind>>

\* an index file with the embedding of record k lost
DropEmbedding(file, k) ==
    [file EXCEPT !.documents =
        [i \in 1..Len(@) |-> IF i = k THEN [id |-> @[i].id, content |-> @[i].content]
                              ELSE @[i]]]

\* what a damaged index file can hold: unparseable text, or parseable JSON
\* in which one document record is malformed
Damaged(file) ==
    {Garbage} \cup {DropEmbedding(file, k) : k \in 1..Len(file.documents)}

\* the index file is damaged while no call is running
DamageFile ==
    /\ pc \in {"idle", "down"}
    /\ index_file.kind = "json"
    /\ faults < MaxFaults
    /\ faults' = faults + 1
    /\ \E file \in Damaged(index_file) : index_file' = file
    /\ call' = [op |-> "damage", ret |-> "none"]
    /\ UNCHANGED <<store_vars, temp_file, pc, save, argsort_kind>>

\* Under faults the callers add the documents one call at a time, and do
\* not search (a search changes nothing a fault could meet).
SingleBatches == {<<>>} \cup {<<doc>> : doc \in DocPool}

NextFault ==
    \/ \E batch \in SingleBatches : AddDocuments(batch)
    \/ Steps
    \/ Crash
    \/ SaveFails
    \/ DamageFile

SpecFault == Init /\ [][NextFault]_vars

----------------------------------------------------------------------------
(* Text.  A text is a sequence of characters.  A character carries the      *)
(* position it had in the text it was read from (0 when the program put it  *)
(* there), so that one can tell which characters of an input reach an       *)
(* output; no operation of the program looks at the position.               *)

Char(c, p) == [c |-> c, p |-> p]

\* a text as it is read: every character at its own position
Str(chars) == [i \in 1..Len(chars) |-> Char(chars[i], i)]

\* the one element of a set of one.  Only({e(x) : x \in {v}}) is e(x) with
\* x the value of v, v being computed once.
Only(S) == CHOOSE x \in S : TRUE

\* the characters alone
Plain(text) == [i \in 1..Len(text) |-> text[i].c]

Whitespace == {" ", "\n"}

\* str.isspace() of one character
IsSpace(ch) == ch.c \in Whitespace

RECURSIVE LStrip(_)
LStrip(text) == IF text # <<>> /\ IsSpace(Head(text)) THEN LStrip(Tail(text)) ELSE text

RECURSIVE RStrip(_)
RStrip(text) ==
    IF text # <<>> /\ IsSpace(text[Len(text)])
    THEN RStrip(SubSeq(text, 1, Len(text) - 1)) ELSE text

\* the text left untrimmed
M_Strip_Keep(text) == text

\* str.strip()
Strip(text) == RStrip(LStrip(text))

\* an index of a slice: a negative one counts from the end, and it is
\* clipped to the text
SliceIndex(i, n) ==
    IF i < 0 THEN (IF i + n < 0 THEN 0 ELSE i + n) ELSE IF i > n THEN n ELSE i

\* text[i:j], with the indices of Python (from 0, j excluded)
Slice(text, i, j) ==
    LET a == SliceIndex(i, Len(text))
        b == SliceIndex(j, Len(text))
    IN IF a >= b THEN <<>> ELSE SubSeq(text, a + 1, b)

\* text[i:]
SliceFrom(text, i) == Slice(text, i, Len(text))

\* an optional argument: None, or a value
None == [none |-> TRUE]
Some(v) == [none |-> FALSE, v |-> v]

----------------------------------------------------------------------------
(* ChunkingProcessor (core/processors/chunking.py)                          *)

ChunkingProcessor(chunk_size, chunk_overlap, preserve_sentences, min_chunk_size) ==
    [chunk_size |-> chunk_size, chunk_overlap |-> chunk_overlap,
     preserve_sentences |-> preserve_sentences, min_chunk_size |-> min_chunk_size]

\* the characters '.!?'
SentenceEnd == {".", "!", "?"}

\* the " " the program joins two sentences with
Space == Char(" ", 0)

Max(a, b) == IF a > b THEN a ELSE b

\* first position from i on that holds no whitespace (Len(text) + 1 if none)
RECURSIVE SkipSpaces(_, _)
SkipSpaces(text, i) ==
    IF i <= Len(text) /\ IsSpace(text[i]) THEN SkipSpaces(text, i + 1) ELSE i

\* re.split(r'(?<=[.!?])\s+', text) from position i on, `piece` being the
\* piece under way: a run of whitespace right after '.', '!' or '?' ends it
RECURSIVE SplitFrom(_, _, _)
SplitFrom(text, i, piece) ==
    IF i > Len(text) THEN <<piece>>
    ELSE IF IsSpace(text[i]) /\ i > 1 /\ text[i - 1].c \in SentenceEnd
    THEN <<piece>> \o SplitFrom(text, SkipSpaces(text, i), <<>>)
    ELSE SplitFrom(text, i + 1, Append(piece, text[i]))

SplitSentences(text) == SplitFrom(text, 1, <<>>)

\* str.find(' '): the index from 0 of the first ' ', or -1
Find(text, c) ==
    IF \E i \in 1..Len(text) : text[i].c = c
    THEN (CHOOSE i \in 1..Len(text) :
              text[i].c = c /\ \A j \in 1..(i - 1) : text[j].c # c) - 1
    ELSE -1

\* _get_overlap_text(text, overlap_size), for overlap_size > 0
GetOverlapText(text, overlap_size) ==
    IF Len(text) <= overlap_size THEN text
    ELSE LET overlap_text == SliceFrom(text, -overlap_size)
             space_idx == Find(overlap_text, " ")
         IN IF space_idx > 0 THEN SliceFrom(overlap_text, space_idx + 1)
            ELSE overlap_text

\* chunks with the chunk appended if it is long enough once trimmed
AppendChunk(self, chunks, chunk) ==
    IF Len(Strip(chunk)) >= self.min_chunk_size THEN Append(chunks, Strip(chunk))
    ELSE chunks

\* _split_by_sentences: the chunk a sentence starts when it does not fit
NextChunk(self, chunks, current_chunk, sentence) ==
    IF self.chunk_overlap > 0 /\ chunks # <<>>
    THEN LET overlap_text == GetOverlapText(current_chunk, self.chunk_overlap)
         IN IF overlap_text # <<>> THEN overlap_text \o <<Space>> \o sentence
            ELSE sentence
    ELSE sentence

\* _split_by_sentences: the loop over the sentences and the final chunk
RECURSIVE SentenceLoop(_, _, _, _)
SentenceLoop(self, sentences, chunks, current_chunk) ==
    IF sentences = <<>>
    THEN IF Strip(current_chunk) # <<>> THEN AppendChunk(self, chunks, current_chunk)
         ELSE chunks
    ELSE LET sentence == Head(sentences) IN
         IF current_chunk # <<>>
               /\ Len(current_chunk) + Len(sentence) + 1 > self.chunk_size
         THEN LET finalized == AppendChunk(self, chunks, current_chunk)
              IN SentenceLoop(self, Tail(sentences), finalized,
                              NextChunk(self, finalized, current_chunk, sentence))
         ELSE SentenceLoop(self, Tail(sentences), chunks,
                           IF current_chunk # <<>>
                           THEN current_chunk \o <<Space>> \o sentence
                           ELSE sentence)

SplitBySentences(self, text) ==
    SentenceLoop(self, SplitSentences(Strip(text)), <<>>, <<>>)

\* how far back _find_break_point looks for a sentence end and for whitespace
SentenceLookback == 100
WordLookback == 50

SetMax(S) == CHOOSE x \in S : \A y \in S : y <= x

\* the break point is put behind the window
M_FindBreakPoint_PastEnd(text) == Len(text) + 1

\* _find_break_point(text): indices from 0; 0 when no break point is found
FindBreakPoint(text) ==
    LET n == Len(text)
        ends == {i \in (Max(0, n - SentenceLookback) + 1)..(n - 1) :
                    text[i + 1].c \in SentenceEnd}
        spaces == {i \in (Max(0, n - WordLookback) + 1)..(n - 1) : IsSpace(text[i + 1])}
    IN IF ends # {} THEN SetMax(ends) + 1
       ELSE IF spaces # {} THEN SetMax(spaces)
       ELSE 0

\* the most windows the loop of _split_by_characters is followed through
MaxWindows == 7

\* _split_by_characters: where the next window starts (lines 150-156)
NextStart(self, start, break_point, chunks) ==
    LET moved == IF break_point > 0 THEN start + break_point - self.chunk_overlap
                 ELSE start + self.chunk_size - self.chunk_overlap
    IN Max(moved,
           IF chunks # <<>> THEN Len(chunks[Len(chunks)]) + moved - self.chunk_overlap
           ELSE 0)

\* _split_by_characters: the while loop, from the window at `start` on.
\* returns is FALSE when the loop is still running after MaxWindows
\* windows: the call does not return.
RECURSIVE CharacterLoop(_, _, _, _, _)
CharacterLoop(self, text, start, chunks, windows) ==
    IF ~(start < Len(text)) THEN [returns |-> TRUE, chunks |-> chunks]
    ELSE IF windows = MaxWindows THEN [returns |-> FALSE, chunks |-> chunks]
    ELSE LET end == start + self.chunk_size IN
         IF end >= Len(text)
         THEN [returns |-> TRUE, chunks |-> AppendChunk(self, chunks, SliceFrom(text, start))]
         ELSE LET chunk_text == Slice(text, start, end)
                  break_point == FindBreakPoint(chunk_text)
                  chunk == IF break_point > 0 THEN Slice(text, start, start + break_point)
                           ELSE chunk_text
                  appended == AppendChunk(self, chunks, chunk)
              IN CharacterLoop(self, text, NextStart(self, start, break_point, appended),
                               appended, windows + 1)

SplitByCharacters(self, text) ==
    IF Len(text) <= self.chunk_size THEN [returns |-> TRUE, chunks |-> <<text>>]
    ELSE CharacterLoop(self, text, 0, <<>>, 0)

\* _split_into_chunks(text)
SplitIntoChunks(self, text) ==
    IF Strip(text) = <<>> THEN [returns |-> TRUE, chunks |-> <<>>]
    ELSE IF self.preserve_sentences
    THEN [returns |-> TRUE, chunks |-> SplitBySentences(self, text)]
    ELSE SplitByCharacters(self, text)

\* the chunk_metadata process() builds, one entry per chunk
ChunkMetadata(self, chunks, metadata) ==
    [i \in 1..Len(chunks) |->
        metadata @@ [chunk_id |-> i - 1, chunk_size |-> Len(chunks[i]),
                     total_chunks |-> Len(chunks),
                     overlap_size |-> IF i > 1 THEN self.chunk_overlap ELSE 0]]

\* ChunkingProcessor.process(context): the metadata of the ProcessingResult,
\* when _split_into_chunks returns
ChunkingProcess(self, content, metadata) ==
    LET chunks == SplitIntoChunks(self, content).chunks
    IN metadata @@ [chunks |-> [i \in 1..Len(chunks) |-> Plain(chunks[i])],
                    chunk_metadata |-> ChunkMetadata(self, chunks, metadata),
                    chunk_count |-> Len(chunks)]

----------------------------------------------------------------------------
(* The query path: RetrievalStage.process, RAGQueryManager.query,          *)
(* QueryProcessor.process, over an embedder and the store.  Every result   *)
(* carries, next to what the code returns, the trace of the calls made on  *)
(* the embedder ("embed") and on the store ("search").                     *)

\* the vector a working embedder gives a text: a function of the text
Encode(text) ==
    IF text = <<>> THEN <<0, 0, 0>>
    ELSE IF text[1].c = "a" THEN <<9, 1, 0>>
    ELSE IF text[1].c = "b" THEN <<9, 0, 3>>
    ELSE <<8, 0, 6>>

\* An embedder, by what it does in this call: is_available, whether
\* get_embedding_dimension returns (`loads`), and what embed gives.
\* "vectors": one vector per text.  "short": success, with the vector of the
\* last text missing (no vector at all for a single text).  "failure":
\* success=False, as both embedders of the package answer any exception.
\* "raises": an embedder that lets an exception out.
\* A backend that is not available cannot give vectors: OpenAIEmbedder
\* without an API key still knows its dimension, SentenceTransformerEmbedder
\* without its library raises when asked for it.
Embedders ==
    {[is_available |-> TRUE, loads |-> TRUE, embed |-> e] :
        e \in {"vectors", "short", "failure", "raises"}}
      \cup {[is_available |-> FALSE, loads |-> l, embed |-> "failure"] : l \in BOOLEAN}

\* get_embedding_dimension() of an embedder that loads
EmbedderDimension == 3

\* embedder.embed(EmbeddingContext(texts)), for a list of texts that is not empty
EmbedderEmbed(emb, texts) ==
    [raised |-> emb.embed = "raises",
     success |-> emb.embed \in {"vectors", "short"},
     embeddings |->
        IF emb.embed = "vectors" THEN [i \in 1..Len(texts) |-> Encode(texts[i])]
        ELSE IF emb.embed = "short" THEN [i \in 1..(Len(texts) - 1) |-> Encode(texts[i])]
        ELSE <<>>]

\* FileIndexStore.search in this installation: the tie order of np.argsort
\* is the one of `kind`
SearchResults(st, query, kind) ==
    IF ~st.embeddings.present \/ Len(st.doc_ids) = 0 THEN <<>>
    ELSE IF \E i \in 1..Len(st.embeddings.rows) :
                Len(st.embeddings.rows[i]) # Len(query.embedding)
    THEN <<>>
    ELSE LET sims == [i \in 1..Len(st.embeddings.rows) |->
                         Similarity(st.embeddings.rows[i], query.embedding)]
             valid == ValidFrom(sims, query.threshold, 1)
             valid_sims == [i \in 1..Len(valid) |-> sims[valid[i]]]
             valid_doc_ids == [i \in 1..Len(valid) |-> st.doc_ids[valid[i]]]
         IN ResultsFrom(st, valid_sims, valid_doc_ids,
                        Take(Reverse(Argsort(valid_sims, kind)), query.top_k),
                        query.filters)

\* _format_results (include_scores is True)
FormatResults(search_results) ==
    [i \in 1..Len(search_results) |->
        [id |-> search_results[i].document.id,
         content |-> search_results[i].document.content,
         metadata |-> search_results[i].document.metadata,
         score |-> search_results[i].score]]

\* _combine_retrieved_content: the parts that are joined, a header (result
\* number and score) and the content each
CombineRetrievedContent(search_results) ==
    [i \in 1..Len(search_results) |->
        [result |-> i, score |-> search_results[i].score,
         content |-> search_results[i].document.content]]

\* the store is searched although no vector came
M_QueryProcessorProcess_SearchAnyway(st, emb, kind, content, top_k, threshold, filters) ==
    LET query_text == Strip(content)
        search_results ==
            SearchResults(st, SearchQuery(Encode(query_text), top_k, filters, threshold), kind)
    IN [content |-> CombineRetrievedContent(search_results),
        metadata |-> [results |-> FormatResults(search_results),
                      result_count |-> Len(search_results)],
        trace |-> <<"embed", "search">>]

\* QueryProcessor.process(context): the ProcessingResult
QueryProcessorProcess(st, emb, kind, content, top_k, threshold, filters) ==
    LET query_text == Strip(content) IN
    IF query_text = <<>>
    THEN [content |-> <<>>,
          metadata |-> [error |-> "Empty query", results |-> <<>>],
          trace |-> <<>>]
    ELSE LET embedding_result == EmbedderEmbed(emb, <<query_text>>) IN
         IF embedding_result.raised
         THEN [content |-> query_text,
               metadata |-> [error |-> "str(e)", results |-> <<>>],
               trace |-> <<"embed">>]
         ELSE IF ~embedding_result.success \/ embedding_result.embeddings = <<>>
         THEN [content |-> query_text,
               metadata |-> [error |-> "Failed to generate query embedding",
                             results |-> <<>>],
               trace |-> <<"embed">>]
         ELSE LET search_query == SearchQuery(embedding_result.embeddings[1],
                                              top_k, filters, threshold)
              IN Only({[content |-> CombineRetrievedContent(search_results),
                        metadata |-> [query |-> query_text,
                                      results |-> FormatResults(search_results),
                                      result_count |-> Len(search_results),
                                      top_k |-> top_k,
                                      threshold |-> threshold],
                        trace |-> <<"embed", "search">>] :
                       search_results \in {SearchResults(st, search_query, kind)}})

\* dict.get(key, default)
Get(d, key, default) == IF key \in DOMAIN d THEN d[key] ELSE default

\* `x or default` for an optional number: None and 0 give the default
OrDefault(x, default) == IF x.none \/ x.v = 0 THEN default ELSE x.v

\* `threshold or default` for an optional threshold n / d: None and 0.0
\* give the default
OrDefaultThreshold(x, default) == IF x.none \/ x.v[1] = 0 THEN default ELSE x.v

\* `filters or {}`
OrNoFilters(x) == IF x.none THEN NoMeta ELSE x.v

\* RAGQueryManager(embedder, index_store, default_top_k, default_threshold)
RAGQueryManager(default_top_k, default_threshold) ==
    [default_top_k |-> default_top_k, default_threshold |-> default_threshold]

\* RAGQueryManager.query(query_text, top_k, threshold, filters): the dict
RAGQueryManagerQuery(st, emb, kind, manager, query_text, top_k, threshold, filters) ==
    Only({[query |-> query_text,
           retrieved_content |-> result.content,
           results |-> Get(result.metadata, "results", <<>>),
           result_count |-> Get(result.metadata, "result_count", 0),
           success |-> "error" \notin DOMAIN result.metadata,
           error |-> Get(result.metadata, "error", "None"),
           metadata |-> result.metadata,
           trace |-> result.trace] :
          result \in {QueryProcessorProcess(st, emb, kind, query_text,
                          OrDefault(top_k, manager.default_top_k),
                          OrDefaultThreshold(threshold, manager.default_threshold),
                          OrNoFilters(filters))}})

\* RetrievalStage.process(context): the StageResult.  A key the stage_config
\* lacks is None here: the default the stage fills in is the one query
\* falls back to.
RetrievalStageProcess(st, emb, kind, manager, data, stage_config) ==
    LET query_text == Strip(data) IN
    IF query_text = <<>>
    THEN [data |-> [results |-> <<>>, retrieved_content |-> <<>>, result_count |-> 0],
          success |-> FALSE,
          error_message |-> "Empty query",
          trace |-> <<>>]
    ELSE LET top_k == IF stage_config.top_k.none
                      THEN Some(manager.default_top_k) ELSE stage_config.top_k
             threshold == IF stage_config.threshold.none
                          THEN Some(manager.default_threshold) ELSE stage_config.threshold
             filters == IF stage_config.filters.none THEN Some(NoMeta)
                        ELSE stage_config.filters
         IN Only({[data |-> query_result,
                   success |-> query_result.success,
                   error_message |-> IF query_result.success THEN "None"
                                     ELSE query_result.error,
                   trace |-> query_result.trace] :
                  query_result \in {RAGQueryManagerQuery(st, emb, kind, manager,
                                        query_text, top_k, threshold, filters)}})

----------------------------------------------------------------------------
(* IndexStage.process: documents from chunks and embeddings, added to the  *)
(* store                                                                    *)

Min(a, b) == IF a < b THEN a ELSE b

\* the id made without the position
M_GenerateDocumentId_NoIndex(metadata, index) ==
    IF "url" \in DOMAIN metadata THEN <<metadata.url, "_chunk", 0>>
    ELSE <<Get(metadata, "source", "doc"), 0>>

\* _generate_document_id: "{url}_chunk_{index}", or "{source or doc}_{index}",
\* as the pair of the prefix and the index
GenerateDocumentId(metadata, index) ==
    IF "url" \in DOMAIN metadata THEN <<metadata.url, "_chunk", index>>
    ELSE <<Get(metadata, "source", "doc"), index>>

CopiedKeys == {"url", "title", "source", "timestamp", "extractor"}

\* _extract_document_metadata
ExtractDocumentMetadata(context_metadata, index) ==
    LET copied == [key \in DOMAIN context_metadata \cap CopiedKeys |-> context_metadata[key]]
        chunk_meta ==
            IF "chunk_metadata" \in DOMAIN context_metadata
                  /\ index < Len(context_metadata.chunk_metadata)
            THEN context_metadata.chunk_metadata[index + 1]
            ELSE NoMeta
        keys == DOMAIN copied \cup DOMAIN chunk_meta \cup {"chunk_index"}
    IN [key \in keys |->
           IF key = "chunk_index" THEN index
           ELSE IF key \in DOMAIN chunk_meta THEN chunk_meta[key]
           ELSE copied[key]]

\* the documents IndexStage.process builds, one per pair of zip(texts, embeddings)
BuildDocuments(texts, embeds, metadata) ==
    [i \in 1..Min(Len(texts), Len(embeds)) |->
        IndexDocument(GenerateDocumentId(metadata, i - 1), texts[i], embeds[i],
                      ExtractDocumentMetadata(metadata, i - 1))]

\* the pairs are indexed although the counts differ
M_IndexStageProcess_ZipAnyway(st, file, texts, embeds, metadata, saved) ==
    LET docs == BuildDocuments(texts, embeds, metadata)
        added == AddLoop(st, docs)
    IN [result |-> [data |-> TRUE, success |-> TRUE, error_message |-> "None",
                    indexed_count |-> Len(docs)],
        store |-> added,
        file |-> SaveData(added),
        trace |-> <<"add_documents">>]

\* IndexStage.process(context) on the store st whose index file is `file`:
\* the StageResult, and the store and the file it leaves.  `saved` says
\* whether _save_index gets the file written.
IndexStageProcess(st, file, texts, embeds, metadata, saved) ==
    IF Len(texts) # Len(embeds)
    THEN [result |-> [data |-> FALSE, success |-> FALSE,
                      error_message |-> "Mismatch between text count and embedding count",
                      indexed_count |-> 0],
          store |-> st, file |-> file, trace |-> <<>>]
    ELSE IF texts = <<>>
    THEN [result |-> [data |-> TRUE, success |-> TRUE, error_message |-> "None",
                      indexed_count |-> 0],
          store |-> st, file |-> file, trace |-> <<>>]
    ELSE LET docs == BuildDocuments(texts, embeds, metadata)
             added == AddLoop(st, docs)
         IN IF HandlerResult(saved) = "true"
            THEN [result |-> [data |-> TRUE, success |-> TRUE, error_message |-> "None",
                              indexed_count |-> Len(docs)],
                  store |-> added, file |-> SaveData(added),
                  trace |-> <<"add_documents">>]
            ELSE [result |-> [data |-> FALSE, success |-> FALSE,
                              error_message |-> "Failed to add documents to index",
                              indexed_count |-> 0],
                  store |-> added, file |-> file,
                  trace |-> <<"add_documents">>]

----------------------------------------------------------------------------
(* The callers of the RAG components: one process that indexes chunks and  *)
(* queries the index, on a disk without faults                              *)

MaxChunks == 2

IndexTexts == {Plain(Str(<<"a">>)), Plain(Str(<<"b">>))}
IndexVectors == {<<9, 1, 0>>, <<9, 0, 3>>}
IndexMetadatas == {NoMeta}

QueryTexts == {Str(<<>>), Str(<<" ">>), Str(<<" ", "a", "\n">>)}
TopKArgs == {None, Some(1)}
ThresholdArgs == {None, Some(<<0, 1>>), Some(<<1, 2>>)}
FilterArgs == {None}

\* the manager the retrieval stage builds from the configuration: every
\* match, whatever its score
Manager == RAGQueryManager(MaxTopK, <<-1, 1>>)

\* IndexStage(index_store).process(StageContext((texts, embeddings), metadata))
IndexProcess(texts, embeds, metadata) ==
    /\ pc = "idle"
    /\ LET out == IndexStageProcess(Self, index_file, texts, embeds, metadata, TRUE) IN
          /\ SetSelf(out.store)
          /\ index_file' = out.file
          /\ call' = [op |-> "index", texts |-> texts, embeddings |-> embeds,
                      metadata |-> metadata, result |-> out.result, trace |-> out.trace,
                      ret |-> "ok", pre |-> Snapshot]
    /\ pc' = "returned"
    /\ UNCHANGED <<temp_file, save, faults, argsort_kind>>

\* a query whose search sorts the list of ids in place
M_Query_ReordersIds(emb, query_text, top_k, threshold, filters) ==
    /\ pc = "idle"
    /\ LET result == RAGQueryManagerQuery(Self, emb, argsort_kind, Manager,
                                          query_text, top_k, threshold, filters)
       IN call' = [op |-> "query", emb |-> emb, query_text |-> query_text,
                   top_k |-> top_k, threshold |-> threshold, filters |-> filters,
                   result |-> result, again |-> FALSE, first |-> result,
                   ret |-> "ok", pre |-> Snapshot]
    /\ doc_ids' = Reverse(doc_ids)
    /\ pc' = "returned"
    /\ UNCHANGED <<documents, embeddings, embedding_dimension, index_file, temp_file,
                   save, faults, argsort_kind>>

\* RAGQueryManager.query(query_text, top_k, threshold, filters)
Query(emb, query_text, top_k, threshold, filters) ==
    /\ pc = "idle"
    /\ LET result == RAGQueryManagerQuery(Self, emb, argsort_kind, Manager,
                                          query_text, top_k, threshold, filters)
       IN call' = [op |-> "query", emb |-> emb, query_text |-> query_text,
                   top_k |-> top_k, threshold |-> threshold, filters |-> filters,
                   result |-> result, again |-> FALSE, first |-> result,
                   ret |-> "ok", pre |-> Snapshot]
    /\ pc' = "returned"
    /\ UNCHANGED <<store_vars, index_file, temp_file, save, faults, argsort_kind>>

\* the caller makes the query it has just made once more: the same
\* arguments, the same embedder, the index as the first query left it
QueryAgain ==
    /\ pc = "returned"
    /\ call.op = "query"
    /\ ~call.again
    /\ LET result == RAGQueryManagerQuery(Self, call.emb, argsort_kind, Manager,
                         call.query_text, call.top_k, call.threshold, call.filters)
       IN call' = [call EXCEPT !.result = result, !.again = TRUE]
    /\ UNCHANGED <<store_vars, index_file, temp_file, pc, save, faults, argsort_kind>>

\* RetrievalStage.process(StageContext(data, stage_config))
\* with stage_config = {"top_k": top_k, "threshold": threshold, "filters": filters}
Retrieve(emb, data, top_k, threshold, filters) ==
    /\ pc = "idle"
    /\ \E stage_config \in {[filters |-> filters, threshold |-> threshold,
                             top_k |-> top_k]} :
          call' = [op |-> "retrieve", emb |-> emb, data |-> data,
                   stage_config |-> stage_config,
                   result |-> RetrievalStageProcess(Self, emb, argsort_kind, Manager,
                                                    data, stage_config),
                   ret |-> "ok", pre |-> Snapshot]
    /\ pc' = "returned"
    /\ UNCHANGED <<store_vars, index_file, temp_file, save, faults, argsort_kind>>

\* the arguments the command line and query_index pass on
CliTopKs == {1, MaxTopK}
CliThresholds == {<<0, 1>>, <<1, 2>>}

\* the `query` command of the CLI (cli/app.py), a process of its own: the
\* exit code, the store it opened, the StageResult it printed.  `opened` is
\* the store FileIndexStore(index_path, dimension) gives, for the runs that
\* get as far as constructing it.
CliQueryResult(file, opened, emb, kind, query_text, top_k, threshold) ==
    LET failed == [data |-> [results |-> <<>>, retrieved_content |-> <<>>,
                             result_count |-> 0],
                   success |-> FALSE, error_message |-> "Error", trace |-> <<>>]
    IN
    IF file.kind = "absent"
    THEN [exit |-> 1, store |-> NoProcess, result |-> failed, trace |-> <<>>]
    ELSE IF ~emb.is_available
    THEN [exit |-> 1, store |-> NoProcess, result |-> failed, trace |-> <<"is_available">>]
    ELSE IF ~emb.loads
    THEN [exit |-> 1, store |-> NoProcess, result |-> failed, trace |-> <<"is_available">>]
    ELSE LET st == opened
             result == RetrievalStageProcess(st, emb, kind,
                           RAGQueryManager(top_k, threshold), query_text,
                           [top_k |-> Some(top_k), threshold |-> Some(threshold),
                            filters |-> None])
         IN [exit |-> IF result.success THEN 0 ELSE 1, store |-> st, result |-> result,
             trace |-> <<"is_available">>]

CliQuery(emb, query_text, top_k, threshold) ==
    /\ pc = "idle"
    /\ \E opened \in {Construct(EmbedderDimension, index_file)} :
       \E out \in {CliQueryResult(index_file, opened, emb, argsort_kind,
                                   query_text, top_k, threshold)} :
          /\ SetSelf(out.store)
          /\ call' = [op |-> "cli_query", emb |-> emb, data |-> query_text,
                      top_k |-> top_k, threshold |-> threshold, exit |-> out.exit,
                      result |-> out.result, checks |-> out.trace,
                      ret |-> "ok", pre |-> Snapshot]
    /\ pc' = "returned"
    /\ UNCHANGED <<index_file, temp_file, save, faults, argsort_kind>>

\* RAGPipelineRunner.query_index(query_text, index_path, top_k, threshold):
\* the RAGPipelineResult and the store build_retrieval_stage opened (`opened`,
\* when the embedder gives its dimension)
QueryIndexResult(file, opened, emb, kind, query_text, top_k, threshold) ==
    IF ~emb.loads
    THEN [success |-> FALSE, query_results |-> "None", error_message |-> "str(e)",
          store |-> NoProcess, trace |-> <<>>]
    ELSE LET st == opened
             query_result == RetrievalStageProcess(st, emb, kind, Manager, query_text,
                                 [top_k |-> top_k, threshold |-> threshold,
                                  filters |-> None])
         IN IF ~query_result.success
            THEN [success |-> FALSE, query_results |-> "None",
                  error_message |-> query_result.error_message,
                  store |-> st, trace |-> query_result.trace]
            ELSE [success |-> TRUE, query_results |-> query_result.data,
                  error_message |-> "None",
                  store |-> st, trace |-> query_result.trace]

QueryIndex(emb, query_text, top_k, threshold) ==
    /\ pc = "idle"
    /\ \E opened \in {Construct(EmbedderDimension, index_file)} :
       \E out \in {QueryIndexResult(index_file, opened, emb, argsort_kind,
                                     query_text, top_k, threshold)} :
          /\ SetSelf(out.store)
          /\ call' = [op |-> "query_index", emb |-> emb, data |-> query_text,
                      top_k |-> top_k, threshold |-> threshold,
                      result |-> [success |-> out.success,
                                  query_results |-> out.query_results,
                                  error_message |-> out.error_message,
                                  trace |-> out.trace],
                      ret |-> "ok", pre |-> Snapshot]
    /\ pc' = "returned"
    /\ UNCHANGED <<index_file, temp_file, save, faults, argsort_kind>>

\* EmbedStage.process(StageContext(data = texts)): the StageResult
EmbedStageProcess(emb, texts) ==
    IF texts = <<>>
    THEN [data |-> <<>>, success |-> TRUE, error_message |-> "None", trace |-> <<>>]
    ELSE LET embedding_result == EmbedderEmbed(emb, texts) IN
         IF embedding_result.raised
         THEN [data |-> <<>>, success |-> FALSE, error_message |-> "str(e)",
               trace |-> <<"embed">>]
         ELSE IF ~embedding_result.success
         THEN [data |-> <<>>, success |-> FALSE,
               error_message |-> "Failed to generate embeddings", trace |-> <<"embed">>]
         ELSE [data |-> embedding_result.embeddings, success |-> TRUE,
               error_message |-> "None", trace |-> <<"embed">>]

\* the contents and the chunkers of the configuration build_index_from_content
\* is run with: blank content, content of two words; a chunker that keeps
\* every chunk, one whose min_chunk_size drops them all, and one whose
\* overlap keeps _split_by_characters from ending on the two words
PipelineContents == {Str(<<" ">>), Str(<<"a", " ", "b">>)}
PipelineChunkers ==
    {ChunkingProcessor(2, 0, FALSE, 0), ChunkingProcessor(2, 0, FALSE, 2),
     ChunkingProcessor(2, 1, FALSE, 0)}

\* the index stage is run although the embed stage failed
M_BuildIndexResult_IndexAnyway(file, opened, emb, split_chunks, chunking_metadata) ==
    LET chunks == chunking_metadata.chunks
        embed_result == EmbedStageProcess(emb, split_chunks)
        out == M_IndexStageProcess_ZipAnyway(opened, file, chunks, embed_result.data,
                                             chunking_metadata, TRUE)
    IN [result |-> [success |-> TRUE, chunks |-> chunks,
                    embeddings |-> embed_result.data, indexed |-> TRUE,
                    error_message |-> "None"],
        store |-> out.store, file |-> out.file,
        trace |-> <<"chunk">> \o embed_result.trace \o <<"open">> \o out.trace]

\* RAGPipelineRunner.build_index_from_content(content, index_path,
\* source_metadata) from the return of chunking_processor.process on:
\* chunking_metadata is the metadata of its result, split_chunks its chunks
\* (with the positions they came from).  `opened` is the store
\* build_index_stage constructs over the index file, for the runs that get
\* that far.  The result is the RAGPipelineResult, the store the run opened
\* (none when it was not reached) and the index file it leaves; the trace
\* lists the stages run: "chunk", "embed" (the embedder is called), "open"
\* (the store is constructed), "add_documents".
BuildIndexResult(file, opened, emb, split_chunks, chunking_metadata) ==
    LET chunks == chunking_metadata.chunks IN
    IF chunks = <<>>
    THEN [result |-> [success |-> FALSE, chunks |-> "None", embeddings |-> "None",
                      indexed |-> FALSE, error_message |-> "Failed to chunk content"],
          store |-> NoProcess, file |-> file, trace |-> <<"chunk">>]
    ELSE LET embed_result == EmbedStageProcess(emb, split_chunks) IN
         IF ~embed_result.success
         THEN [result |-> [success |-> FALSE, chunks |-> chunks, embeddings |-> "None",
                           indexed |-> FALSE,
                           error_message |-> embed_result.error_message],
               store |-> NoProcess, file |-> file,
               trace |-> <<"chunk">> \o embed_result.trace]
         ELSE IF ~emb.loads
         THEN [result |-> [success |-> FALSE, chunks |-> "None", embeddings |-> "None",
                           indexed |-> FALSE, error_message |-> "str(e)"],
               store |-> NoProcess, file |-> file,
               trace |-> <<"chunk">> \o embed_result.trace]
         ELSE LET out == IndexStageProcess(opened, file, chunks, embed_result.data,
                                           chunking_metadata, TRUE)
                  trace == <<"chunk">> \o embed_result.trace \o <<"open">> \o out.trace
              IN IF ~out.result.success
                 THEN [result |-> [success |-> FALSE, chunks |-> chunks,
                                   embeddings |-> embed_result.data, indexed |-> FALSE,
                                   error_message |-> out.result.error_message],
                       store |-> out.store, file |-> out.file, trace |-> trace]
                 ELSE [result |-> [success |-> TRUE, chunks |-> chunks,
                                   embeddings |-> embed_result.data, indexed |-> TRUE,
                                   error_message |-> "None"],
                       store |-> out.store, file |-> out.file, trace |-> trace]

\* a call of build_index_from_content that returns (it does not while the
\* loop of _split_by_characters keeps running)
BuildIndexFromContent(emb, chunker, content, metadata) ==
    /\ pc = "idle"
    /\ \E split \in {SplitIntoChunks(chunker, content)} :
       \E chunking_metadata \in {ChunkingProcess(chunker, content, metadata)} :
       \E opened \in {Construct(EmbedderDimension, index_file)} :
       \E out \in {BuildIndexResult(index_file, opened, emb, split.chunks,
                                    chunking_metadata)} :
          /\ split.returns
          /\ SetSelf(out.store)
          /\ index_file' = out.file
          /\ call' = [op |-> "build_index", emb |-> emb, chunker |-> chunker,
                      content |-> content, result |-> out.result, trace |-> out.trace,
                      ret |-> "ok", pre |-> Snapshot]
    /\ pc' = "returned"
    /\ UNCHANGED <<temp_file, save, faults, argsort_kind>>

NextRag ==
    \/ \E texts \in SeqsUpTo(IndexTexts, MaxChunks), embeds \in SeqsUpTo(IndexVectors, MaxChunks),
          metadata \in IndexMetadatas : IndexProcess(texts, embeds, metadata)
    \/ \E emb \in Embedders, query_text \in QueryTexts, top_k \in TopKArgs,
          threshold \in ThresholdArgs, filters \in FilterArgs :
             Query(emb, query_text, top_k, threshold, filters)
    \/ QueryAgain
    \/ \E query \in Queries : Search(query)
    \/ \E emb \in Embedders, data \in QueryTexts, top_k \in TopKArgs,
          threshold \in ThresholdArgs, filters \in FilterArgs :
             Retrieve(emb, data, top_k, threshold, filters)
    \/ \E emb \in Embedders, query_text \in QueryTexts, top_k \in CliTopKs,
          threshold \in CliThresholds : CliQuery(emb, query_text, top_k, threshold)
    \/ \E emb \in Embedders, query_text \in QueryTexts, top_k \in TopKArgs,
          threshold \in ThresholdArgs : QueryIndex(emb, query_text, top_k, threshold)
    \/ \E emb \in Embedders, chunker \in PipelineChunkers, content \in PipelineContents,
          metadata \in IndexMetadatas :
             BuildIndexFromContent(emb, chunker, content, metadata)
    \/ Return

SpecRag == Init /\ [][NextRag]_vars

----------------------------------------------------------------------------
(* The chunker on its own: one ChunkingProcessor and one text it is given  *)

MaxTextLen == 5
MaxChunkSize == 3

ChunkAlphabet == {"a", " ", "."}

ChunkTexts == {Str(chars) : chars \in SeqsUpTo(ChunkAlphabet, MaxTextLen)}

\* every configuration: the overlap may reach or pass chunk_size, and
\* min_chunk_size may be 0, small, or as large as a full chunk
ChunkingProcessors ==
    {ChunkingProcessor(chunk_size, chunk_overlap, preserve_sentences, min_chunk_size) :
        chunk_size \in 1..MaxChunkSize, chunk_overlap \in 0..(MaxChunkSize - 1),
        preserve_sentences \in BOOLEAN, min_chunk_size \in {0, 1, MaxChunkSize}}

InitChunk ==
    /\ documents = NoProcess.documents
    /\ doc_ids = NoProcess.doc_ids
    /\ embeddings = NoProcess.embeddings
    /\ embedding_dimension = NoProcess.embedding_dimension
    /\ index_file = Absent
    /\ temp_file = Absent
    /\ pc = "idle"
    /\ \E self \in ChunkingProcessors, text \in ChunkTexts :
          call = [op |-> "chunker", self |-> self, text |-> text, ret |-> "none"]
    /\ save = NoSave
    /\ faults = 0
    /\ argsort_kind = "lower_index_first"

\* ChunkingProcessor.process(ProcessingContext(text)): the chunks of the
\* result's metadata.  When the loop of _split_by_characters does not end,
\* the call does not return.
Process ==
    /\ pc = "idle"
    /\ call.op = "chunker"
    /\ LET split == SplitIntoChunks(call.self, call.text) IN
          /\ call' = [op |-> "process", self |-> call.self, text |-> call.text,
                      returns |-> split.returns, chunks |-> split.chunks,
                      ret |-> IF split.returns THEN "ok" ELSE "none"]
          /\ pc' = IF split.returns THEN "returned" ELSE "running"
    /\ UNCHANGED <<store_vars, index_file, temp_file, save, faults, argsort_kind>>

NextSplit == Process

SpecChunk == InitChunk /\ [][NextSplit]_vars

----------------------------------------------------------------------------
(* OpenAIEmbedder.embed: the texts are sent to the API batch by batch.  One *)
(* call of client.embeddings.create is one step; it either answers or       *)
(* raises.                                                                  *)

MaxTexts == 4
MaxBatchSize == 3

\* OpenAIEmbedder(api_key, batch_size)
OpenAIEmbedder(api_key, batch_size) == [api_key |-> api_key, batch_size |-> batch_size]

EmbedTexts == {Str(<<"a">>), Str(<<"b">>), Str(<<"c">>)}

\* context.texts[i:i + self.batch_size]
BatchTexts(texts, i, batch_size) ==
    [k \in 1..(Min(i + batch_size, Len(texts)) - i) |-> texts[i + k]]

\* [data.embedding for data in response.data] of a call of
\* client.embeddings.create that answers: the API gives one embedding per
\* input, in the order of the inputs
BatchEmbeddings(batch_texts) == [k \in 1..Len(batch_texts) |-> Encode(batch_texts[k])]

\* the vectors of the batches that went through are returned
M_EmbedFailure_KeepPartial(all_embeddings) ==
    [embeddings |-> all_embeddings, success |-> FALSE]

\* the EmbeddingResult of the except branch
EmbedFailure(all_embeddings) == [embeddings |-> <<>>, success |-> FALSE]

InitEmbed ==
    /\ documents = NoProcess.documents
    /\ doc_ids = NoProcess.doc_ids
    /\ embeddings = NoProcess.embeddings
    /\ embedding_dimension = NoProcess.embedding_dimension
    /\ index_file = Absent
    /\ temp_file = Absent
    /\ pc = "idle"
    /\ \E api_key \in BOOLEAN, batch_size \in 1..MaxBatchSize,
          texts \in SeqsUpTo(EmbedTexts, MaxTexts) :
          call = [op |-> "embedder", self |-> OpenAIEmbedder(api_key, batch_size),
                  texts |-> texts, ret |-> "none"]
    /\ save = NoSave
    /\ faults = 0
    /\ argsort_kind = "lower_index_first"

\* embed(context) up to the loop: no text, no call of the API; without an
\* API key _get_client raises
EmbedBegin ==
    /\ pc = "idle"
    /\ call.op = "embedder"
    /\ IF call.texts = <<>>
       THEN /\ call' = [op |-> "embed", self |-> call.self, texts |-> call.texts,
                        i |-> 0, all_embeddings |-> <<>>, batches |-> 0,
                        result |-> [embeddings |-> <<>>, success |-> TRUE], ret |-> "ok"]
            /\ pc' = "returned"
       ELSE IF ~call.self.api_key
       THEN /\ call' = [op |-> "embed", self |-> call.self, texts |-> call.texts,
                        i |-> 0, all_embeddings |-> <<>>, batches |-> 0,
                        result |-> EmbedFailure(<<>>), ret |-> "ok"]
            /\ pc' = "returned"
       ELSE /\ call' = [op |-> "embed", self |-> call.self, texts |-> call.texts,
                        i |-> 0, all_embeddings |-> <<>>, batches |-> 0,
                        result |-> None, ret |-> "none"]
            /\ pc' = "running"
    /\ UNCHANGED <<store_vars, index_file, temp_file, save, faults, argsort_kind>>

\* one turn of the loop: the API answers the batch that starts at i
CreateAnswers ==
    /\ pc = "running"
    /\ call.op = "embed"
    /\ call.i < Len(call.texts)
    /\ call' = [call EXCEPT
                  !.all_embeddings = call.all_embeddings \o
                      BatchEmbeddings(BatchTexts(call.texts, call.i, call.self.batch_size)),
                  !.i = call.i + call.self.batch_size,
                  !.batches = call.batches + 1]
    /\ UNCHANGED <<store_vars, index_file, temp_file, pc, save, faults, argsort_kind>>

\* one turn of the loop: the call of the API raises
CreateRaises ==
    /\ pc = "running"
    /\ call.op = "embed"
    /\ call.i < Len(call.texts)
    /\ call' = [call EXCEPT !.result = EmbedFailure(call.all_embeddings), !.ret = "ok"]
    /\ pc' = "returned"
    /\ UNCHANGED <<store_vars, index_file, temp_file, save, faults, argsort_kind>>

\* the loop is through: the EmbeddingResult with all the vectors
EmbedReturn ==
    /\ pc = "running"
    /\ call.op = "embed"
    /\ ~(call.i < Len(call.texts))
    /\ call' = [call EXCEPT !.result = [embeddings |-> call.all_embeddings,
                                        success |-> TRUE],
                            !.ret = "ok"]
    /\ pc' = "returned"
    /\ UNCHANGED <<store_vars, index_file, temp_file, save, faults, argsort_kind>>

NextEmbed == EmbedBegin \/ CreateAnswers \/ CreateRaises \/ EmbedReturn

SpecEmbed == InitEmbed /\ [][NextEmbed]_vars

----------------------------------------------------------------------------
(* Two FileIndexStore instances in two processes, opened on the same index  *)
(* path, each running add_documents once.  Both write the same temporary    *)
(* path.  A path names a file (a number, 0 for none); a file that was       *)
(* opened is written through its handle whatever its name has become.  The  *)
(* text of a file is a sequence of pieces: a head, one piece per document,  *)
(* a tail.  save holds the files and the two names, call the two            *)
(* processes; index_file and temp_file are what reading the two paths       *)
(* gives.                                                                   *)

MaxRaceBatch == 2

Writers == {"A", "B"}

RaceDocs == {d \in DocPool : d.content \in {"machine learning", "cooking recipes",
                                            "neural networks"}}

RaceBatches == SeqsUpTo(RaceDocs, MaxRaceBatch) \ {<<>>}

\* json.dump(data, f): the text written
Serialize(data) ==
    <<[piece |-> "head", embedding_dimension |-> data.embedding_dimension]>>
      \o [i \in 1..Len(data.documents) |-> [piece |-> "document", document |-> data.documents[i]]]
      \o <<[piece |-> "tail", stats |-> data.stats]>>

\* json.load of a text: the dictionary it was written from, if it is the
\* whole text of one; anything else does not parse
Deserialize(text) ==
    IF /\ Len(text) >= 2
       /\ text[1].piece = "head"
       /\ text[Len(text)].piece = "tail"
       /\ \A i \in 2..(Len(text) - 1) : text[i].piece = "document"
    THEN [kind |-> "json",
          embedding_dimension |-> text[1].embedding_dimension,
          documents |-> [i \in 1..(Len(text) - 2) |-> text[i + 1].document],
          stats |-> text[Len(text)].stats]
    ELSE Garbage

\* what reading a path gives
ReadPath(files, name) == IF name = 0 THEN Absent ELSE Deserialize(files[name])

\* write(text) through a handle at the start of a file: what was there
\* beyond the end of the new text stays
WriteAtStart(old, text) ==
    IF Len(old) > Len(text) THEN text \o SubSeq(old, Len(text) + 1, Len(old)) ELSE text

InitRace ==
    /\ documents = NoProcess.documents
    /\ doc_ids = NoProcess.doc_ids
    /\ embeddings = NoProcess.embeddings
    /\ embedding_dimension = NoProcess.embedding_dimension
    /\ index_file = Absent
    /\ temp_file = Absent
    /\ pc = "running"
    /\ \E a \in RaceBatches, b \in RaceBatches :
          call = [op |-> "race",
                  w |-> [p \in Writers |->
                           [pc |-> "add", batch |-> IF p = "A" THEN a ELSE b,
                            store |-> EmptyStore(EmbedderDimension), handle |-> 0,
                            ret |-> "pending"]],
                  renamed |-> <<>>, ret |-> "none"]
    /\ save = [files |-> <<>>, index |-> 0, temp |-> 0]
    /\ faults = 0
    /\ argsort_kind = "lower_index_first"

Finished(c) == \A p \in Writers : c.w[p].pc = "done"

\* add_documents of process p, up to open(temp_path, 'w') of _save_index:
\* the documents are added in memory; the file the temporary path names is
\* emptied, or a new one is made
RaceOpenTemp(p) ==
    /\ call.op = "race"
    /\ call.w[p].pc = "add"
    /\ LET st == AddLoop(call.w[p].store, call.w[p].batch)
           files == IF save.temp # 0 THEN [save.files EXCEPT ![save.temp] = <<>>]
                    ELSE Append(save.files, <<>>)
           temp == IF save.temp # 0 THEN save.temp ELSE Len(save.files) + 1
       IN /\ save' = [save EXCEPT !.files = files, !.temp = temp]
          /\ call' = [call EXCEPT !.w[p].store = st, !.w[p].handle = temp,
                                  !.w[p].pc = "dump"]
          /\ temp_file' = ReadPath(files, temp)
          /\ index_file' = ReadPath(files, save.index)
    /\ UNCHANGED <<store_vars, pc, faults, argsort_kind>>

\* _save_index of process p: json.dump and the close of the file write the
\* text through the handle
RaceDump(p) ==
    /\ call.op = "race"
    /\ call.w[p].pc = "dump"
    /\ LET h == call.w[p].handle
           files == [save.files EXCEPT
                       ![h] = WriteAtStart(save.files[h],
                                           Serialize(SaveData(call.w[p].store)))]
       IN /\ save' = [save EXCEPT !.files = files]
          /\ temp_file' = ReadPath(files, save.temp)
          /\ index_file' = ReadPath(files, save.index)
    /\ call' = [call EXCEPT !.w[p].pc = "rename"]
    /\ UNCHANGED <<store_vars, pc, faults, argsort_kind>>

\* _save_index of process p: temp_path.rename(index_path).  When the other
\* process has renamed the temporary file away, rename raises
\* FileNotFoundError and add_documents returns False.
RaceRename(p) ==
    /\ call.op = "race"
    /\ call.w[p].pc = "rename"
    /\ LET moved == save.temp # 0
           c == [call EXCEPT !.w[p].pc = "done",
                             !.w[p].ret = HandlerResult(moved),
                             !.renamed = IF moved THEN Append(call.renamed, p)
                                         ELSE call.renamed]
       IN /\ save' = IF moved THEN [save EXCEPT !.index = save.temp, !.temp = 0]
                     ELSE save
          /\ index_file' = IF moved THEN ReadPath(save.files, save.temp) ELSE index_file
          /\ temp_file' = IF moved THEN Absent ELSE temp_file
          /\ call' = c
          /\ pc' = IF Finished(c) THEN "returned" ELSE pc
    /\ UNCHANGED <<store_vars, faults, argsort_kind>>

NextRace == \E p \in Writers : RaceOpenTemp(p) \/ RaceDump(p) \/ RaceRename(p)

SpecRace == InitRace /\ [][NextRace]_vars

-----------------------------------------------------------------------------
(* PipelineRunner._run_extractors (core/pipeline.py).  An extractor is what  *)
(* its supports() and extract() answer; its name is its position in the     *)
(* configured list.  The call record holds the locals of the function.      *)

MaxExtractors == 3
MaxMinLength == 3

\* ExtractionResult(content, metadata, succeeded) of the extractor named name
ExtractionResult(name, content, reason, succeeded) ==
    [content |-> content,
     metadata |-> [extractor |-> name, reason |-> reason,
                   warnings |-> <<>>, partial |-> FALSE],
     succeeded |-> succeeded]

ExtractContents ==
    {None, Some(<<>>), Some(Str(<<" ">>)), Some(Str(<<"a">>)), Some(Str(<<"a", " ">>)),
     Some(Str(<<" ", "a", "b">>)), Some(Str(<<"a", "b", "c">>))}

\* what one extractor does: supports() false, extract() reporting failure
\* with or without a reason in its metadata, extract() succeeding
ExtractorKinds ==
    {[supports |-> FALSE, succeeded |-> FALSE, content |-> None, reason |-> None]}
    \cup {[supports |-> TRUE, succeeded |-> FALSE, content |-> None, reason |-> r] :
            r \in {None, Some("timeout")}}
    \cup {[supports |-> TRUE, succeeded |-> TRUE, content |-> c, reason |-> None] :
            c \in ExtractContents}

Extract(extractors, i) ==
    ExtractionResult(i, extractors[i].content, extractors[i].reason,
                     extractors[i].succeeded)

\* result.content or ""
ContentOrEmpty(result) == IF result.content.none THEN <<>> ELSE result.content.v

\* len(content.strip())
TrimmedLength(result) == Len(Strip(ContentOrEmpty(result)))

\* trimmed_length >= best_short_length
M_BetterShort_OrEqual(trimmed_length, best_short_length) ==
    trimmed_length >= best_short_length

\* trimmed_length > best_short_length
BetterShort(trimmed_length, best_short_length) == trimmed_length > best_short_length

InitExtract ==
    /\ documents = NoProcess.documents
    /\ doc_ids = NoProcess.doc_ids
    /\ embeddings = NoProcess.embeddings
    /\ embedding_dimension = NoProcess.embedding_dimension
    /\ index_file = Absent
    /\ temp_file = Absent
    /\ save = NoSave
    /\ faults = 0
    /\ argsort_kind = "none"
    /\ pc = "running"
    /\ \E extractors \in SeqsUpTo(ExtractorKinds, MaxExtractors) \ {<<>>},
          min_content_length \in 0..MaxMinLength :
          call = [op |-> "run_extractors", extractors |-> extractors,
                  min_content_length |-> min_content_length, i |-> 1,
                  failure_reason |-> None, best_short_result |-> None,
                  best_short_length |-> 0, invoked |-> <<>>,
                  result |-> None, ret |-> "none"]

InLoop ==
    /\ pc = "running"
    /\ call.op = "run_extractors"
    /\ call.i <= Len(call.extractors)

extract_vars ==
    <<documents, doc_ids, embeddings, embedding_dimension, index_file, temp_file,
      save, faults, argsort_kind>>

\* if not extractor.supports(context): continue
NotSupported ==
    /\ InLoop
    /\ ~call.extractors[call.i].supports
    /\ call' = [call EXCEPT !.i = @ + 1]
    /\ UNCHANGED <<pc, extract_vars>>

\* if not result.succeeded: failure_reason = reason or "... reported failure"
ReportedFailure ==
    /\ InLoop
    /\ call.extractors[call.i].supports
    /\ \E result \in {Extract(call.extractors, call.i)} :
          /\ ~result.succeeded
          /\ call' = [call EXCEPT
                 !.i = @ + 1,
                 !.invoked = Append(@, call.i),
                 !.failure_reason =
                     IF result.metadata.reason.none
                     THEN Some([by |-> call.i, text |-> "reported failure"])
                     ELSE Some([by |-> call.i, text |-> result.metadata.reason.v])]
    /\ UNCHANGED <<pc, extract_vars>>

\* if trimmed_length < min_content_length: ...; continue
TooShort ==
    /\ InLoop
    /\ call.extractors[call.i].supports
    /\ \E result \in {Extract(call.extractors, call.i)} :
       \E trimmed_length \in {TrimmedLength(result)} :
          /\ result.succeeded
          /\ trimmed_length < call.min_content_length
          /\ call' = [call EXCEPT
                 !.i = @ + 1,
                 !.invoked = Append(@, call.i),
                 !.failure_reason = Some([by |-> call.i, text |-> "produced too few characters"]),
                 !.best_short_result =
                     IF BetterShort(trimmed_length, call.best_short_length)
                     THEN Some(result) ELSE @,
                 !.best_short_length =
                     IF BetterShort(trimmed_length, call.best_short_length)
                     THEN trimmed_length ELSE @]
    /\ UNCHANGED <<pc, extract_vars>>

\* long enough and content empty: the loop goes on
EmptyContent ==
    /\ InLoop
    /\ call.extractors[call.i].supports
    /\ \E result \in {Extract(call.extractors, call.i)} :
          /\ result.succeeded
          /\ ~(TrimmedLength(result) < call.min_content_length)
          /\ ContentOrEmpty(result) = <<>>
          /\ call' = [call EXCEPT !.i = @ + 1, !.invoked = Append(@, call.i)]
    /\ UNCHANGED <<pc, extract_vars>>

\* if content: return result
ReturnResult ==
    /\ InLoop
    /\ call.extractors[call.i].supports
    /\ \E result \in {Extract(call.extractors, call.i)} :
          /\ result.succeeded
          /\ ~(TrimmedLength(result) < call.min_content_length)
          /\ ContentOrEmpty(result) # <<>>
          /\ call' = [call EXCEPT !.invoked = Append(@, call.i),
                                  !.result = Some(result), !.ret = "ok"]
    /\ pc' = "returned"
    /\ UNCHANGED extract_vars

\* after the loop: if best_short_result is not None: return it as partial
ReturnPartial ==
    /\ pc = "running"
    /\ call.op = "run_extractors"
    /\ call.i > Len(call.extractors)
    /\ ~call.best_short_result.none
    /\ \E best \in {call.best_short_result.v} :
          call' = [call EXCEPT
              !.result = Some([content |-> best.content,
                               metadata |-> [best.metadata EXCEPT
                                   !.warnings = Append(@,
                                       IF call.failure_reason.none
                                       THEN [by |-> 0, text |-> "shorter than minimum"]
                                       ELSE call.failure_reason.v),
                                   !.partial = TRUE],
                               succeeded |-> TRUE]),
              !.ret = "ok"]
    /\ pc' = "returned"
    /\ UNCHANGED extract_vars

\* raise RuntimeError(failure_reason or "All extractors failed ...")
RaiseAllFailed ==
    /\ pc = "running"
    /\ call.op = "run_extractors"
    /\ call.i > Len(call.extractors)
    /\ call.best_short_result.none
    /\ call' = [call EXCEPT !.ret = "raise"]
    /\ pc' = "returned"
    /\ UNCHANGED extract_vars

NextExtract ==
    \/ NotSupported
    \/ ReportedFailure
    \/ TooShort
    \/ EmptyContent
    \/ ReturnResult
    \/ ReturnPartial
    \/ RaiseAllFailed

SpecExtract == InitExtract /\ [][NextExtract]_vars

-----------------------------------------------------------------------------
(* _split_by_characters, one window of its while loop at a time.  The call  *)
(* record holds the locals start and chunks, and for every window that was  *)
(* cut where it started, how long the cut was and where the next starts.    *)

\* the fixed-width configurations
WindowProcessors == {self \in ChunkingProcessors : ~self.preserve_sentences}

InitWindow ==
    /\ documents = NoProcess.documents
    /\ doc_ids = NoProcess.doc_ids
    /\ embeddings = NoProcess.embeddings
    /\ embedding_dimension = NoProcess.embedding_dimension
    /\ index_file = Absent
    /\ temp_file = Absent
    /\ save = NoSave
    /\ faults = 0
    /\ argsort_kind = "none"
    /\ pc = "running"
    /\ \E self \in WindowProcessors, text \in ChunkTexts :
          call = [op |-> "split_by_characters", self |-> self, text |-> text,
                  start |-> 0, chunks |-> <<>>, cuts |-> <<>>, ret |-> "none"]

InWhile ==
    /\ pc = "running"
    /\ call.op = "split_by_characters"
    /\ Len(call.text) > call.self.chunk_size

\* if len(text) <= self.chunk_size: return [text]
ReturnWhole ==
    /\ pc = "running"
    /\ call.op = "split_by_characters"
    /\ Len(call.text) <= call.self.chunk_size
    /\ call' = [call EXCEPT !.chunks = <<call.text>>, !.ret = "ok"]
    /\ pc' = "returned"
    /\ UNCHANGED extract_vars

\* one pass of the loop body that cuts a window and moves start
CutWindow ==
    /\ InWhile
    /\ call.start < Len(call.text)
    /\ call.start + call.self.chunk_size < Len(call.text)
    /\ Len(call.cuts) < MaxWindows
    /\ \E chunk_text \in {Slice(call.text, call.start, call.start + call.self.chunk_size)} :
       \E break_point \in {FindBreakPoint(chunk_text)} :
       \E chunk \in {IF break_point > 0
                     THEN Slice(call.text, call.start, call.start + break_point)
                     ELSE chunk_text} :
       \E appended \in {AppendChunk(call.self, call.chunks, chunk)} :
       \E next \in {NextStart(call.self, call.start, break_point, appended)} :
          call' = [call EXCEPT
              !.chunks = appended,
              !.start = next,
              !.cuts = Append(@, [start |-> call.start,
                                  length |-> IF break_point > 0 THEN break_point
                                             ELSE call.self.chunk_size,
                                  chunk |-> chunk,
                                  next |-> next])]
    /\ UNCHANGED <<pc, extract_vars>>

\* if end >= len(text): the final chunk, break
FinalChunk ==
    /\ InWhile
    /\ call.start < Len(call.text)
    /\ call.start + call.self.chunk_size >= Len(call.text)
    /\ call' = [call EXCEPT
           !.chunks = AppendChunk(call.self, @, SliceFrom(call.text, call.start)),
           !.ret = "ok"]
    /\ pc' = "returned"
    /\ UNCHANGED extract_vars

\* the loop condition start < len(text) is false
LoopExit ==
    /\ InWhile
    /\ ~(call.start < Len(call.text))
    /\ call' = [call EXCEPT !.ret = "ok"]
    /\ pc' = "returned"
    /\ UNCHANGED extract_vars

NextWindow == ReturnWhole \/ CutWindow \/ FinalChunk \/ LoopExit

SpecWindow == InitWindow /\ [][NextWindow]_vars

-----------------------------------------------------------------------------
(* Builds that follow one another into one index path: each opens the       *)
(* store from the index file (build_index_stage), embeds its chunks and     *)
(* runs IndexStage.process.  The call record keeps the metadata and the     *)
(* chunk count of the build before.                                         *)

MaxBuilds == 2

\* stage metadata with a url, a source, both, or neither
IdMetadatas ==
    {NoMeta, [url |-> "u"], [source |-> "s"], [url |-> "u", source |-> "s"],
     [source |-> "t"]}

InitIds ==
    /\ documents = NoProcess.documents
    /\ doc_ids = NoProcess.doc_ids
    /\ embeddings = NoProcess.embeddings
    /\ embedding_dimension = NoProcess.embedding_dimension
    /\ index_file = Absent
    /\ temp_file = Absent
    /\ save = NoSave
    /\ faults = 0
    /\ argsort_kind = "none"
    /\ pc = "idle"
    /\ call = [op |-> "builds", builds |-> 0, ret |-> "none"]

\* build_index_stage(config, index_path).process(StageContext((chunks,
\* embeddings), metadata)), the embeddings being those of the chunks
IndexInto(texts, metadata) ==
    /\ call.op \in {"builds", "index_into"}
    /\ call.builds < MaxBuilds
    /\ \E opened \in {Construct(EmbedderDimension, index_file)} :
       \E embeds \in {[i \in 1..Len(texts) |-> Encode(Str(texts[i]))]} :
       \E out \in {IndexStageProcess(opened, index_file, texts, embeds, metadata, TRUE)} :
          /\ SetSelf(out.store)
          /\ index_file' = out.file
          /\ call' = [op |-> "index_into", builds |-> call.builds + 1,
                      texts |-> texts, metadata |-> metadata, result |-> out.result,
                      before |-> IF call.op = "index_into"
                                 THEN Some([metadata |-> call.metadata,
                                            count |-> Len(call.texts)])
                                 ELSE None,
                      pre |-> [store |-> opened, file |-> index_file],
                      ret |-> "ok"]
    /\ pc' = "returned"
    /\ UNCHANGED <<temp_file, save, faults, argsort_kind>>

NextIds ==
    \E texts \in SeqsUpTo(IndexTexts, MaxChunks), metadata \in IdMetadatas :
        IndexInto(texts, metadata)

SpecIds == InitIds /\ [][NextIds]_vars

----------------------------------------------------------------------------
(* Claims *)

\* C1: in every state reached by add_documents (insert or update),
\* delete_document, clear and reload, the id list has no duplicates, is as
\* long as the documents mapping and as the matrix, the matrix is absent
\* exactly when there is no document, and row i of the matrix is the
\* embedding of the document whose id is at position i.
C1_StoreInvariant ==
    /\ \A i, j \in 1..Len(doc_ids) : i # j => doc_ids[i] # doc_ids[j]
    /\ Len(doc_ids) = Cardinality(DOMAIN documents)
    /\ embeddings.present <=> Cardinality(DOMAIN documents) > 0
    /\ Len(embeddings.rows) = Len(doc_ids)
    /\ \A i \in 1..Len(doc_ids) :
          /\ doc_ids[i] \in DOMAIN documents
          /\ documents[doc_ids[i]].id = doc_ids[i]
          /\ embeddings.rows[i] = documents[doc_ids[i]].embedding

\* a store reloaded after a delete, holding two documents one of which was
\* updated before
C1_Witness ==
    /\ call.op = "open"
    /\ call.after = "delete"
    /\ Len(doc_ids) = 2
    /\ "doc1" \in DOMAIN documents
    /\ documents["doc1"].content = "machine learning v2"

\* the positions of the documents that pass the threshold of the query,
\* judged on the documents mapping
Passing(st, query) ==
    {i \in 1..Len(st.doc_ids) :
        PassesThreshold(Similarity(st.documents[st.doc_ids[i]].embedding, query.embedding),
                        query.threshold)}

RankedResults(st, query, results) ==
    LET passing == Passing(st, query)
        sim(id) == Similarity(st.documents[id].embedding, query.embedding)
        returned == {results[i].document.id : i \in 1..Len(results)}
    IN /\ Len(results) = Min(query.top_k, Cardinality(passing))
       /\ \A i \in 1..Len(results) :
             /\ \E k \in passing : st.doc_ids[k] = results[i].document.id
             /\ results[i].document = st.documents[results[i].document.id]
             /\ results[i].score = sim(results[i].document.id)
             /\ PassesThreshold(results[i].score, query.threshold)
       /\ \A i, j \in 1..Len(results) :
             /\ i # j => results[i].document.id # results[j].document.id
             /\ i < j => ScoreGeq(results[i].score, results[j].score)
       /\ \A k \in passing :
             st.doc_ids[k] \notin returned =>
                \A i \in 1..Len(results) : ScoreGeq(results[i].score, sim(st.doc_ids[k]))

\* the store and the query of the example: [1,0,0], [0,1,0], [0.8,0,0.6],
\* query [0.9,0.1,0], top_k = 2, threshold = 0.5
ExampleStore ==
    /\ Len(doc_ids) = 3
    /\ embeddings.present
    /\ embeddings.rows = << <<10, 0, 0>>, <<0, 10, 0>>, <<8, 0, 6>> >>

ExampleQuery == SearchQuery(<<9, 1, 0>>, 2, NoMeta, <<1, 2>>)

\* C2: on a non-empty store, for a query vector of the store's dimension,
\* top_k >= 1 and any threshold, search without filters returns the first
\* min(top_k, m) of the m documents whose cosine similarity is >= threshold,
\* by similarity descending: scores do not increase, none is below the
\* threshold, and no omitted passing document scores strictly higher than a
\* returned one; the example returns the [1,0,0] document, then [0.8,0,0.6].
C2_SearchRanking ==
    (/\ call.op = "search"
     /\ call.query.filters = NoMeta
     /\ Len(doc_ids) > 0
     /\ Len(call.query.embedding) = embedding_dimension)
    => /\ RankedResults(Self, call.query, call.results)
       /\ (ExampleStore /\ call.query = ExampleQuery)
             => /\ Len(call.results) = 2
                /\ call.results[1].document.id = doc_ids[1]
                /\ call.results[2].document.id = doc_ids[3]

\* the example has been searched, and two of its three documents returned
C2_Witness ==
    /\ call.op = "search"
    /\ ExampleStore
    /\ call.query = ExampleQuery
    /\ Len(call.results) = 2

\* C3: add_documents on a batch mixing documents of the store's dimension
\* with documents of another length skips each mismatching document, adds
\* every matching one whatever its position, and returns true; every stored
\* document has len(embedding) = embedding_dimension and total_documents
\* counts no skipped document.
C3_SkipMismatch ==
    /\ \A id \in DOMAIN documents : Len(documents[id].embedding) = embedding_dimension
    /\ call.op = "add" =>
          LET old == call.pre.store
              batch == call.batch
              matching == {i \in 1..Len(batch) :
                              Len(batch[i].embedding) = old.embedding_dimension}
              added == {batch[i].id : i \in matching}
          IN /\ \A i \in matching :
                   (\A j \in matching : j > i => batch[j].id # batch[i].id)
                      => GetDocument(Self, batch[i].id) = batch[i]
             /\ DOMAIN documents = DOMAIN old.documents \cup added
             /\ GetStats(Self).total_documents
                   = Cardinality(DOMAIN old.documents \cup added)
             /\ \A id \in DOMAIN old.documents \ added : documents[id] = old.documents[id]
             /\ pc = "returned" => call.ret = "true"

\* a batch whose first document is skipped and whose second is new and added
C3_Witness ==
    /\ call.op = "add"
    /\ pc = "returned"
    /\ call.ret = "true"
    /\ Len(call.batch) = 2
    /\ Len(call.batch[1].embedding) # embedding_dimension
    /\ Len(call.batch[2].embedding) = embedding_dimension
    /\ call.batch[2].id \notin DOMAIN call.pre.store.documents
    /\ call.batch[2].id \in DOMAIN documents
    /\ call.batch[1].id \notin DOMAIN documents

\* the call add_documents([doc]) with the id of doc present and a vector of
\* the store's dimension
IsUpdateCall ==
    /\ call.op = "add"
    /\ Len(call.batch) = 1
    /\ call.batch[1].id \in DOMAIN call.pre.store.documents
    /\ Len(call.batch[1].embedding) = call.pre.store.embedding_dimension

\* C4: adding a document whose id is present replaces content, embedding
\* and metadata in place: total_documents is unchanged, the id keeps its
\* position and its row, get_document returns the new document, later
\* searches score the id with the new vector, no other document changes.
C4_UpdateInPlace ==
    IsUpdateCall =>
        LET doc == call.batch[1]
            old == call.pre.store
            idx == CHOOSE i \in 1..Len(old.doc_ids) : old.doc_ids[i] = doc.id
        IN /\ GetStats(Self).total_documents = GetStats(old).total_documents
           /\ doc_ids = old.doc_ids
           /\ GetDocument(Self, doc.id) = doc
           /\ embeddings.present
           /\ Len(embeddings.rows) = Len(old.embeddings.rows)
           /\ embeddings.rows[idx] = doc.embedding
           /\ \A i \in 1..Len(doc_ids) : i # idx => embeddings.rows[i] = old.embeddings.rows[i]
           /\ \A id \in DOMAIN old.documents : id # doc.id => documents[id] = old.documents[id]
           /\ \A query \in Queries : \A results \in SearchOutcomes(Self, query) :
                 \A i \in 1..Len(results) :
                    results[i].document.id = doc.id
                       => /\ results[i].document = doc
                          /\ results[i].score = Similarity(doc.embedding, query.embedding)

\* the first of two documents has been replaced by a version with another
\* content and another vector
C4_Witness ==
    /\ IsUpdateCall
    /\ pc = "returned"
    /\ Len(doc_ids) = 2
    /\ call.batch[1].id = doc_ids[1]
    /\ call.pre.store.documents[doc_ids[1]].content # documents[doc_ids[1]].content
    /\ call.pre.store.embeddings.rows[1] # embeddings.rows[1]

\* C5: after add_documents / delete_document calls that returned true, a new
\* FileIndexStore on the same path holds the same documents (ids, content,
\* embedding, metadata) in the same order as the first store had in memory,
\* and adopts the embedding_dimension recorded in the file whatever
\* dimension its constructor is given.  (Checked in the stronger form: the
\* last call before the reopening returned true.)
C5_ReloadRoundTrip ==
    (/\ call.op = "open"
     /\ call.after \in {"add", "delete"}
     /\ call.after_ret = "true")
    => /\ documents = call.pre.store.documents
       /\ doc_ids = call.pre.store.doc_ids
       /\ embeddings = call.pre.store.embeddings
       /\ \A id \in DocIds : GetDocument(Self, id) = GetDocument(call.pre.store, id)
       /\ index_file.kind = "json"
       /\ embedding_dimension = index_file.embedding_dimension
       /\ embedding_dimension = call.pre.store.embedding_dimension

\* two documents reloaded by a store constructed with another dimension
C5_Witness ==
    /\ call.op = "open"
    /\ call.after = "add"
    /\ call.after_ret = "true"
    /\ Len(doc_ids) = 2
    /\ call.dim # embedding_dimension
    /\ documents[doc_ids[1]].metadata # NoMeta

\* C6: with _save_index as the steps 'write the temporary file', 'rename it
\* over the index file', a crash at any point leaves the index file holding
\* the complete previous state or the complete new state, and a store
\* opened after the crash loads one of the two.
C6_CrashAtomic ==
    /\ InSave => index_file = save.prev
    /\ call.op = "crash" => index_file \in {save.prev, save.data}
    /\ (call.op = "open" /\ call.after = "crash")
          => \E file \in {save.prev, save.data} : Self = Construct(call.dim, file)

\* the process died while json.dump was writing the temporary file: that
\* file is cut off, the index file holds the previous documents
C6_Witness ==
    /\ call.op = "crash"
    /\ call.during = "dump"
    /\ temp_file = Garbage
    /\ save.prev.kind = "json"
    /\ Len(save.prev.documents) >= 1
    /\ save.data # save.prev
    /\ index_file = save.prev

\* C7: delete_document(id) for a present id removes that document and its
\* row, keeps the order of the others, persists and returns true; deleting
\* the only document leaves the matrix absent and total_documents = 0, and a
\* reloaded store shows 0 documents too.  For an absent id it returns false
\* and changes neither the memory nor the file.
C7_Delete ==
    call.op = "delete" =>
        LET old == call.pre.store
            id == call.id
        IN IF id \in DOMAIN old.documents
           THEN /\ DOMAIN documents = DOMAIN old.documents \ {id}
                /\ \A x \in DOMAIN documents : documents[x] = old.documents[x]
                /\ doc_ids = SelectSeq(old.doc_ids, LAMBDA x : x # id)
                /\ Len(embeddings.rows) = Len(doc_ids)
                /\ \A i \in 1..Len(doc_ids) :
                      embeddings.rows[i] = old.documents[doc_ids[i]].embedding
                /\ embedding_dimension = old.embedding_dimension
                /\ IF Len(old.doc_ids) = 1
                   THEN embeddings = NoMatrix /\ GetStats(Self).total_documents = 0
                   ELSE embeddings.present
                /\ pc = "returned"
                      => /\ call.ret = "true"
                         /\ index_file.kind = "json"
                         /\ \A dim \in CtorDims :
                               LET reloaded == Construct(dim, index_file)
                               IN /\ reloaded.documents = documents
                                  /\ reloaded.doc_ids = doc_ids
                                  /\ GetStats(reloaded).total_documents
                                        = GetStats(Self).total_documents
           ELSE /\ call.ret = "false"
                /\ pc = "returned"
                /\ Self = old
                /\ index_file = call.pre.file

\* the only document of a store has been deleted and the empty state saved
C7_Witness ==
    /\ call.op = "delete"
    /\ pc = "returned"
    /\ call.ret = "true"
    /\ Len(call.pre.store.doc_ids) = 1
    /\ GetStats(Self).total_documents = 0
    /\ index_file.kind = "json"
    /\ Len(index_file.documents) = 0

\* C8: clear() empties the mapping, the id list and the matrix, removes the
\* index file and returns true; a store opened on the path afterwards finds
\* no file and starts with 0 documents; a later add_documents creates the
\* file again.
C8_Clear ==
    /\ call.op = "clear"
          => /\ DOMAIN documents = {}
             /\ doc_ids = <<>>
             /\ embeddings = NoMatrix
             /\ index_file = Absent
             /\ call.ret = "true"
             /\ \A dim \in CtorDims :
                   /\ Construct(dim, index_file) = EmptyStore(dim)
                   /\ GetStats(Construct(dim, index_file)).total_documents = 0
    /\ (call.op = "add" /\ call.pre.file = Absent /\ pc = "returned")
          => /\ index_file.kind = "json"
             /\ Len(index_file.documents) = Len(doc_ids)

\* a store of two documents with its file on disk has been cleared
C8_Witness ==
    /\ call.op = "clear"
    /\ call.pre.file.kind = "json"
    /\ Len(call.pre.store.doc_ids) = 2
    /\ index_file = Absent

\* a file _load_index cannot load: missing, unparseable, or with a document
\* record that lacks a key
Unloadable(file) ==
    \/ file.kind \in {"absent", "garbage"}
    \/ /\ file.kind = "json"
       /\ \E i \in 1..Len(file.documents) :
             ~({"id", "content", "embedding"} \subseteq DOMAIN file.documents[i])

\* C9: opening a store on a missing, corrupt or unparseable file (also one
\* in which a single document record is malformed) gives a store with zero
\* documents, no matrix and the constructor's embedding_dimension, holding
\* no partially loaded document.
C9_LoadTolerant ==
    (call.op = "open" /\ Unloadable(index_file))
    => /\ call.ret = "ok"
       /\ pc = "returned"
       /\ DOMAIN documents = {}
       /\ doc_ids = <<>>
       /\ embeddings = NoMatrix
       /\ embedding_dimension = call.dim

\* a file whose first record is good and whose second is malformed has been
\* opened with a dimension other than the one it records
C9_Witness ==
    /\ call.op = "open"
    /\ index_file.kind = "json"
    /\ Len(index_file.documents) = 2
    /\ "embedding" \in DOMAIN index_file.documents[1]
    /\ "embedding" \notin DOMAIN index_file.documents[2]
    /\ call.dim # index_file.embedding_dimension
    /\ doc_ids = <<>>

\* C10 as stated: a failing write during add_documents or delete_document
\* is raised to the caller, not turned into a return value.
C10_WriteFailureRaised ==
    (call.op \in {"add", "delete"} /\ call.save_error) => call.ret = "raised"

\* C10 as the code has it: the exception _save_index re-raises is caught by
\* add_documents / delete_document, which return False; the index file
\* keeps its previous content.
C10_WriteFailureReturnsFalse ==
    (call.op \in {"add", "delete"} /\ call.save_error)
    => /\ call.ret = "false"
       /\ pc = "returned"
       /\ index_file = call.pre.file

\* an add_documents whose save failed: the memory has the new document, the
\* caller has False
C10_Witness ==
    /\ call.op = "add"
    /\ call.save_error
    /\ call.ret = "false"
    /\ Self # call.pre.store
    /\ index_file = call.pre.file

IsBlank(text) == \A i \in 1..Len(text) : IsSpace(text[i])

\* C12: a query whose text is empty or whitespace-only returns (it does not
\* raise) a result with result_count 0, no results, success false and the
\* reason "Empty query", from RAGQueryManager.query and from
\* RetrievalStage.process alike, and neither embed nor search is called.
C12_EmptyQuery ==
    /\ (call.op = "query" /\ IsBlank(call.query_text)) =>
          /\ call.ret = "ok"
          /\ call.result.result_count = 0
          /\ call.result.results = <<>>
          /\ ~call.result.success
          /\ call.result.error = "Empty query"
          /\ call.result.trace = <<>>
    /\ (call.op = "retrieve" /\ IsBlank(call.data)) =>
          /\ call.ret = "ok"
          /\ call.result.data.result_count = 0
          /\ call.result.data.results = <<>>
          /\ ~call.result.success
          /\ call.result.error_message = "Empty query"
          /\ call.result.trace = <<>>

\* reached: a whitespace-only query on a store that holds documents, with
\* an embedder that would have given a vector
C12_Witness ==
    /\ call.op \in {"query", "retrieve"}
    /\ (IF call.op = "query" THEN call.query_text ELSE call.data) = Str(<<" ">>)
    /\ call.emb.is_available
    /\ call.emb.embed = "vectors"
    /\ Len(doc_ids) > 0

\* the calls a query or a retrieval made on the embedder and the store
QueryTrace == call.result.trace

\* "embed" or "search" is among the calls made
Called(trace, what) == \E i \in 1..Len(trace) : trace[i] = what

\* C13: when embed answers the query text with success=False, or with
\* success and no vector, query returns (it does not raise) zero matches,
\* success false and the reason "Failed to generate query embedding", and
\* the store is not searched; the same holds, with the exception's text as
\* the reason, for an embedder that raises.
C13_EmbeddingFailure ==
    (call.op = "query" /\ ~IsBlank(call.query_text)) =>
        /\ call.emb.embed \in {"failure", "short"} =>
              /\ call.ret = "ok"
              /\ call.result.result_count = 0
              /\ call.result.results = <<>>
              /\ ~call.result.success
              /\ call.result.error = "Failed to generate query embedding"
              /\ ~Called(QueryTrace, "search")
        /\ call.emb.embed = "raises" =>
              /\ call.ret = "ok"
              /\ call.result.result_count = 0
              /\ call.result.results = <<>>
              /\ ~call.result.success
              /\ call.result.error = "str(e)"
              /\ ~Called(QueryTrace, "search")

\* reached: embed succeeds without a vector for a query text that two
\* documents of the store would match
C13_Witness ==
    /\ call.op = "query"
    /\ call.query_text = Str(<<" ", "a", "\n">>)
    /\ call.emb.embed = "short"
    /\ Called(QueryTrace, "embed")
    /\ Len(SearchResults(Self, SearchQuery(Encode(Strip(call.query_text)), MaxTopK, NoMeta,
                                           <<-1, 1>>), argsort_kind)) = 2

\* C14: the query path does not call embed on a backend whose is_available
\* is false: whoever starts the query (RAGQueryManager.query,
\* RetrievalStage.process, RAGPipelineRunner.query_index, the query command
\* of the CLI), the result is a failure and embed has not been called.
C14_NoEmbedWhenUnavailable ==
    (call.op \in {"query", "retrieve", "query_index", "cli_query"}
        /\ ~call.emb.is_available /\ ~IsBlank(IF call.op = "query" THEN call.query_text
                                              ELSE call.data)) =>
        /\ ~call.result.success
        /\ ~Called(QueryTrace, "embed")

\* The same, for the one caller that asks is_available first: the query
\* command of the CLI never reaches embed with an unavailable backend.
C14_CliChecksAvailability ==
    (call.op = "cli_query" /\ ~call.emb.is_available) =>
        /\ call.exit = 1
        /\ ~Called(QueryTrace, "embed")

\* reached: query_index with an OpenAI embedder that has no API key, on an
\* index that holds documents; embed was called
C14_Witness ==
    /\ call.op = "query_index"
    /\ ~call.emb.is_available
    /\ call.emb.loads
    /\ Len(doc_ids) > 0
    /\ Called(QueryTrace, "embed")
    /\ ~call.result.success


StageOrder == <<"chunk", "embed", "open", "add_documents">>

\* C15: build_index_from_content runs chunking, embedding, indexing in this
\* order and stops at the first stage that fails.  When chunking yields no
\* chunk, neither the embedder nor the store is used; when embedding fails
\* (the embedder answers success=False or raises), the store is neither
\* opened nor written; in both cases the index file is as it was before the
\* call and the result has success = False, indexed = False and an error
\* message.  indexed = True only together with success = True, and then
\* there are as many embeddings as chunks.
C15_PipelineShortCircuit ==
    call.op = "build_index" =>
        LET chunks == SplitIntoChunks(call.chunker, call.content).chunks
            no_chunks == chunks = <<>>
            embedding_fails == ~no_chunks /\ call.emb.embed \in {"failure", "raises"}
            result == call.result
        IN /\ \E n \in 1..Len(StageOrder) : call.trace = SubSeq(StageOrder, 1, n)
           /\ no_chunks => call.trace = <<"chunk">>
           /\ embedding_fails =>
                 /\ ~Called(call.trace, "open")
                 /\ ~Called(call.trace, "add_documents")
           /\ (no_chunks \/ embedding_fails) =>
                 /\ index_file = call.pre.file
                 /\ ~result.success
                 /\ ~result.indexed
                 /\ result.error_message # "None"
           /\ result.indexed =>
                 /\ result.success
                 /\ Len(result.chunks) = Len(result.embeddings)
                 /\ Len(result.chunks) = Len(chunks)

\* content that gives two chunks, an embedder that fails, and an index
\* file that already holds documents
C15_Witness ==
    /\ call.op = "build_index"
    /\ Len(SplitIntoChunks(call.chunker, call.content).chunks) = 2
    /\ call.emb.embed = "failure"
    /\ call.pre.file.kind = "json"
    /\ call.pre.file.documents # <<>>
    /\ ~call.result.success


\* C16: when the number of chunks differs from the number of embeddings
\* handed to IndexStage.process, the stage fails with success = False and the
\* mismatch error before any document is built or added: add_documents is
\* not called, and the store in memory and the index file are as before.
C16_CountMismatch ==
    (call.op = "index" /\ Len(call.texts) # Len(call.embeddings)) =>
        /\ ~call.result.success
        /\ call.result.error_message = "Mismatch between text count and embedding count"
        /\ call.result.indexed_count = 0
        /\ ~Called(call.trace, "add_documents")
        /\ Self = call.pre.store
        /\ index_file = call.pre.file

\* two chunks and one embedding, handed to a store that holds a document
C16_Witness ==
    /\ call.op = "index"
    /\ Len(call.texts) = 2
    /\ Len(call.embeddings) = 1
    /\ call.pre.store.doc_ids # <<>>
    /\ ~call.result.success


\* the positions of the source text that are found in some chunk
Covered(chunks) ==
    (UNION {{chunks[k][j].p : j \in 1..Len(chunks[k])} : k \in 1..Len(chunks)}) \ {0}

\* C17: for every non-empty text and every configuration of the chunker
\* (both modes, any min_chunk_size, any overlap), when process returns, every
\* character of the source that is not whitespace lies inside at least one
\* chunk: no range of the source is skipped.
C17_ChunkCoverage ==
    (call.op = "process" /\ call.returns /\ call.text # <<>>) =>
        \A i \in 1..Len(call.text) :
            ~IsSpace(call.text[i]) => i \in Covered(call.chunks)

\* fixed-width mode without overlap and without a minimum size: of "aaaaa"
\* with chunk_size 2 the chunks are "aa" and the last "a"; the third and
\* fourth characters are in no chunk
C17_Witness ==
    /\ call.op = "process"
    /\ call.returns
    /\ call.self = ChunkingProcessor(2, 0, FALSE, 0)
    /\ Plain(call.text) = <<"a", "a", "a", "a", "a">>
    /\ Covered(call.chunks) = {1, 2, 5}


\* C18: in fixed-width mode (preserve_sentences = False), for every text and
\* every chunk_size >= 1, every chunk process returns is at most chunk_size
\* characters long.
C18_FixedWidthLength ==
    (call.op = "process" /\ call.returns /\ ~call.self.preserve_sentences) =>
        \A k \in 1..Len(call.chunks) : Len(call.chunks[k]) <= call.self.chunk_size

\* a text longer than chunk_size, cut into several chunks, one of them a
\* full window
C18_Witness ==
    /\ call.op = "process"
    /\ call.returns
    /\ ~call.self.preserve_sentences
    /\ Len(call.text) > call.self.chunk_size
    /\ Len(call.chunks) >= 2
    /\ \E k \in 1..Len(call.chunks) : Len(call.chunks[k]) = call.self.chunk_size


\* C19: in sentence-preserving mode every chunk that contains more than one
\* sentence is at most chunk_size characters long; only a chunk that is a
\* single sentence may be longer.
C19_SentenceChunkLength ==
    (call.op = "process" /\ call.returns /\ call.self.preserve_sentences) =>
        \A k \in 1..Len(call.chunks) :
            Len(SplitSentences(call.chunks[k])) > 1 =>
                Len(call.chunks[k]) <= call.self.chunk_size

\* without overlap the bound is kept: a sentence is added to a chunk only
\* when the two fit
C19_NoOverlapLength ==
    (call.op = "process" /\ call.returns /\ call.self.preserve_sentences
        /\ call.self.chunk_overlap = 0) =>
        \A k \in 1..Len(call.chunks) :
            Len(SplitSentences(call.chunks[k])) > 1 =>
                Len(call.chunks[k]) <= call.self.chunk_size

\* "a. a." with chunk_size 3 and chunk_overlap 2: the second chunk is the
\* overlap "a." and the sentence "a.", five characters
C19_Witness ==
    /\ call.op = "process"
    /\ call.returns
    /\ call.self = ChunkingProcessor(3, 2, TRUE, 0)
    /\ Plain(call.text) = <<"a", ".", " ", "a", ".">>
    /\ Len(call.chunks) = 2
    /\ Plain(call.chunks[2]) = <<"a", ".", " ", "a", ".">>
    /\ Len(SplitSentences(call.chunks[2])) = 2


\* C20: content that is not blank and at most chunk_size characters long
\* gives exactly one chunk, the content with the surrounding whitespace
\* trimmed, in both modes and whatever min_chunk_size is.
C20_SingleChunk ==
    (call.op = "process" /\ call.returns /\ Strip(call.text) # <<>>
        /\ Len(call.text) <= call.self.chunk_size) =>
        /\ Len(call.chunks) = 1
        /\ Plain(call.chunks[1]) = Plain(Strip(call.text))

\* sentence mode, content "a" shorter than min_chunk_size 3 = chunk_size:
\* no chunk at all
C20_Witness ==
    /\ call.op = "process"
    /\ call.returns
    /\ call.self.preserve_sentences
    /\ call.self.chunk_size = 3
    /\ call.self.min_chunk_size = 3
    /\ Plain(call.text) = <<"a">>
    /\ call.chunks = <<>>


\* C21: for OpenAIEmbedder with any batch_size >= 1 and any list of texts
\* that is not empty, embed returns either success = True with exactly one
\* vector per text, the i-th vector that of the i-th text wherever the
\* batches end, or success = False with no vector: when a later batch fails
\* the vectors of the earlier batches are dropped.
C21_EmbedAllOrNothing ==
    (call.op = "embed" /\ pc = "returned" /\ call.texts # <<>>) =>
        IF call.result.success
        THEN /\ Len(call.result.embeddings) = Len(call.texts)
             /\ \A i \in 1..Len(call.texts) :
                   call.result.embeddings[i] = Encode(call.texts[i])
        ELSE call.result.embeddings = <<>>

\* a second batch fails after a first one went through
C21_Witness ==
    /\ call.op = "embed"
    /\ pc = "returned"
    /\ call.batches >= 1
    /\ call.all_embeddings # <<>>
    /\ ~call.result.success
    /\ Len(call.texts) > call.self.batch_size


\* C22: when two FileIndexStore instances in separate processes run
\* add_documents on the same index path at the same time, then under every
\* interleaving of their steps the index file, once both calls have
\* finished, holds the complete state of exactly one of the two writers, the
\* one whose rename happened last: never a mixture or a partial write.
C22_LastRenameWins ==
    (call.op = "race" /\ Finished(call)) =>
        /\ call.renamed # <<>>
        /\ index_file = SaveData(call.w[call.renamed[Len(call.renamed)]].store)

\* both calls have finished and the index file is the text of the shorter
\* state followed by the end of the longer one: it does not parse
C22_Witness ==
    /\ call.op = "race"
    /\ Finished(call)
    /\ index_file = Garbage
    /\ \E p \in Writers, q \in Writers :
          /\ Len(call.w[p].store.doc_ids) < Len(call.w[q].store.doc_ids)
          /\ save.files[save.index] =
                WriteAtStart(Serialize(SaveData(call.w[q].store)),
                             Serialize(SaveData(call.w[p].store)))


IsExtractRun == call.op = "run_extractors"

\* the extractors that support the context, in configured order, up to n
RECURSIVE SupportingUpTo(_, _)
SupportingUpTo(extractors, n) ==
    IF n = 0 THEN <<>>
    ELSE IF extractors[n].supports
         THEN Append(SupportingUpTo(extractors, n - 1), n)
         ELSE SupportingUpTo(extractors, n - 1)

\* extractor i succeeds with non-empty content of trimmed length >= the minimum
Sufficient(extractors, i, min_content_length) ==
    /\ extractors[i].supports
    /\ extractors[i].succeeded
    /\ ~extractors[i].content.none
    /\ extractors[i].content.v # <<>>
    /\ Len(Strip(extractors[i].content.v)) >= min_content_length

\* extractor i succeeds with non-blank content shorter than the minimum
ShortUsable(extractors, i, min_content_length) ==
    /\ extractors[i].supports
    /\ extractors[i].succeeded
    /\ ~extractors[i].content.none
    /\ Len(Strip(extractors[i].content.v)) > 0
    /\ Len(Strip(extractors[i].content.v)) < min_content_length

\* C23: _run_extractors tries the supporting extractors in configured order
\* and returns the result of the first that succeeded with non-empty content
\* of trimmed length >= minimum_content_length, invoking none after it; when
\* none reaches the minimum and some succeeded with shorter non-blank
\* content it returns the longest of these (the earliest among equals) with
\* partial = True and a non-empty warnings list; otherwise it raises.
C23_RunExtractors ==
    (IsExtractRun /\ pc = "returned") =>
        LET ex == call.extractors
            m == call.min_content_length
            good == {i \in 1..Len(ex) : Sufficient(ex, i, m)}
            short == {i \in 1..Len(ex) : ShortUsable(ex, i, m)}
        IN  IF good # {}
            THEN LET f == CHOOSE i \in good : \A j \in good : i <= j
                 IN  /\ call.ret = "ok"
                     /\ call.result = Some(Extract(ex, f))
                     /\ call.invoked = SupportingUpTo(ex, f)
            ELSE IF short # {}
            THEN LET b == CHOOSE i \in short : \A j \in short :
                              \/ Len(Strip(ex[j].content.v)) < Len(Strip(ex[i].content.v))
                              \/ /\ Len(Strip(ex[j].content.v)) = Len(Strip(ex[i].content.v))
                                 /\ i <= j
                 IN  /\ call.ret = "ok"
                     /\ call.result.v.content = ex[b].content
                     /\ call.result.v.metadata.extractor = b
                     /\ call.result.v.metadata.partial
                     /\ call.result.v.metadata.warnings # <<>>
                     /\ call.result.v.succeeded
                     /\ call.invoked = SupportingUpTo(ex, Len(ex))
            ELSE /\ call.ret = "raise"
                 /\ call.invoked = SupportingUpTo(ex, Len(ex))

\* a partial result returned where a later extractor was as long as the
\* one chosen, after an unsupporting extractor was passed over
C23_Witness ==
    /\ IsExtractRun
    /\ pc = "returned"
    /\ call.ret = "ok"
    /\ call.result.v.metadata.partial
    /\ call.result.v.metadata.extractor = 2
    /\ Len(call.extractors) = 3
    /\ ~call.extractors[1].supports
    /\ ShortUsable(call.extractors, 3, call.min_content_length)
    /\ Len(Strip(call.extractors[3].content.v)) = Len(Strip(call.extractors[2].content.v))
    /\ call.extractors[3].content # call.extractors[2].content


IsWindowRun == call.op = "split_by_characters"

\* C24: in fixed-width chunking, for every text and every configuration
\* with chunk_size >= 1 and chunk_overlap >= 0, each pass of the window loop
\* moves the window start forward by at least one character: the start
\* never stays, never moves backward, and no start is visited twice (so the
\* loop ends).
C24_StartMovesForward ==
    IsWindowRun =>
        \A k \in 1..Len(call.cuts) : call.cuts[k].next >= call.cuts[k].start + 1

\* the loop has come back to the start it left, with an overlap smaller
\* than the chunk size, and goes on
C24_Witness ==
    /\ IsWindowRun
    /\ pc = "running"
    /\ call.self.chunk_overlap < call.self.chunk_size
    /\ Len(call.cuts) = MaxWindows
    /\ \A k \in 1..Len(call.cuts) : call.cuts[k].next = call.cuts[k].start
    /\ call.start < Len(call.text)

\* C25: in fixed-width mode with 0 < chunk_overlap < chunk_size, after a
\* chunk is cut at length L from the window start s, the next window starts
\* at exactly s + L - chunk_overlap.
C25_NextWindowStart ==
    (IsWindowRun /\ 0 < call.self.chunk_overlap
                 /\ call.self.chunk_overlap < call.self.chunk_size) =>
        \A k \in 1..Len(call.cuts) :
            call.cuts[k].next =
                call.cuts[k].start + call.cuts[k].length - call.self.chunk_overlap

\* the call has returned after a window whose successor started further on
\* than s + L - chunk_overlap, leaving characters of the text in no chunk
C25_Witness ==
    /\ IsWindowRun
    /\ pc = "returned"
    /\ 0 < call.self.chunk_overlap
    /\ call.self.chunk_overlap < call.self.chunk_size
    /\ call.self.min_chunk_size = 0
    /\ Len(call.cuts) = 1
    /\ call.cuts[1].next >
           call.cuts[1].start + call.cuts[1].length - call.self.chunk_overlap
    /\ \E p \in 1..Len(call.text) :
          /\ ~IsSpace(call.text[p])
          /\ \A c \in 1..Len(call.chunks) : \A j \in 1..Len(call.chunks[c]) :
                call.chunks[c][j].p # p


\* the position of a stored document in the id list
InsertionIndex(id) == CHOOSE k \in 1..Len(doc_ids) : doc_ids[k] = id

SameScore(s1, s2) == ScoreGeq(s1, s2) /\ ScoreGeq(s2, s1)

IsSearch ==
    /\ call.op = "search"
    /\ Len(doc_ids) > 0
    /\ Len(call.query.embedding) = embedding_dimension

\* C26: documents that pass the threshold with equal similarity scores are
\* returned in insertion order (the order of the store's id list): among
\* the results an earlier inserted document of a tie comes first, and when
\* top_k cuts a group of tied documents the earlier inserted ones are kept.
C26_TiesInInsertionOrder ==
    IsSearch =>
        /\ \A i, j \in 1..Len(call.results) :
              (i < j /\ SameScore(call.results[i].score, call.results[j].score)) =>
                  InsertionIndex(call.results[i].document.id)
                      < InsertionIndex(call.results[j].document.id)
        /\ call.query.filters = NoMeta =>
              \A i \in 1..Len(call.results) : \A k \in Passing(Self, call.query) :
                  (/\ SameScore(call.results[i].score,
                                Similarity(documents[doc_ids[k]].embedding,
                                           call.query.embedding))
                   /\ k < InsertionIndex(call.results[i].document.id))
                  => \E j \in 1..Len(call.results) :
                        call.results[j].document.id = doc_ids[k]

\* [1,0,0] was inserted before [0.8,0,0.6]; the query [0.9,0,0.3] scores
\* both alike, top_k = 1 keeps one of them, and it is the later inserted
C26_Witness ==
    /\ IsSearch
    /\ embeddings.rows = << <<10, 0, 0>>, <<8, 0, 6>> >>
    /\ call.query = SearchQuery(<<9, 0, 3>>, 1, NoMeta, <<1, 2>>)
    /\ Len(call.results) = 1
    /\ call.results[1].document.id = doc_ids[2]

\* the results that match every key of the filters, in their order
RECURSIVE Matching(_, _)
Matching(results, filters) ==
    IF results = <<>> THEN <<>>
    ELSE (IF \A key \in DOMAIN filters :
                 /\ key \in DOMAIN Head(results).document.metadata
                 /\ Head(results).document.metadata[key] = filters[key]
          THEN <<Head(results)>> ELSE <<>>)
         \o Matching(Tail(results), filters)

\* C27: the filters of a search are an exact-equality AND over all given
\* keys, evaluated only on the documents left by the threshold and the
\* top_k cut: the results are, in rank order, those of the top_k
\* threshold-passing documents that match every filter key.
C27_FiltersAfterTopK ==
    IsSearch =>
        \E top \in SearchOutcomes(Self, [call.query EXCEPT !.filters = NoMeta]) :
            /\ RankedResults(Self, [call.query EXCEPT !.filters = NoMeta], top)
            /\ call.results = Matching(top, call.query.filters)

\* top_k = 1 and the filter topic = ai return nothing, although a stored
\* document passes the threshold and matches the filter: the one document
\* that survived the cut does not match
C27_Witness ==
    /\ IsSearch
    /\ call.query.top_k = 1
    /\ call.query.filters = MetaAi
    /\ call.results = <<>>
    /\ \E k \in Passing(Self, call.query) : documents[doc_ids[k]].metadata = MetaAi


\* the dict RAGQueryManager.query returned to the caller of the last
\* operation, when the operation got as far as the search
SearchedQuery ==
    IF call.op = "query" /\ Called(call.result.trace, "search")
    THEN Some(call.result)
    ELSE IF call.op = "retrieve" /\ Called(call.result.trace, "search")
    THEN Some(call.result.data)
    ELSE IF call.op = "query_index" /\ Called(call.result.trace, "search")
    THEN Some(call.result.query_results)
    ELSE None

\* the top_k and the threshold the caller supplied (None when omitted)
SuppliedTopK ==
    IF call.op = "retrieve" THEN call.stage_config.top_k ELSE call.top_k

SuppliedThreshold ==
    IF call.op = "retrieve" THEN call.stage_config.threshold ELSE call.threshold

\* C28: when the caller of query_index, RetrievalStage.process or
\* RAGQueryManager.query supplies a top_k or a threshold (0.0 included, the
\* configured default being non-zero), the search is run with exactly the
\* supplied value; the configured default is used for an omitted parameter.
C28_ParametersPassedThrough ==
    ~SearchedQuery.none =>
        /\ SearchedQuery.v.metadata.top_k =
              (IF SuppliedTopK.none THEN Manager.default_top_k ELSE SuppliedTopK.v)
        /\ SearchedQuery.v.metadata.threshold =
              (IF SuppliedThreshold.none THEN Manager.default_threshold
               ELSE SuppliedThreshold.v)

\* query_index was called with threshold 0.0 on an index with documents, and
\* the search ran with the configured default -1.0
C28_Witness ==
    /\ call.op = "query_index"
    /\ ~SearchedQuery.none
    /\ call.threshold = Some(<<0, 1>>)
    /\ Manager.default_threshold = <<-1, 1>>
    /\ SearchedQuery.v.metadata.threshold = <<-1, 1>>
    /\ Len(doc_ids) > 0


\* the chunks of the last indexing operation that reported success, with
\* the metadata their ids are made from; <<>> when none was reported indexed
IndexedChunks ==
    IF call.op = "index" /\ call.result.success
          /\ call.result.indexed_count = Len(call.texts)
    THEN call.texts
    ELSE IF call.op = "build_index" /\ call.result.success /\ call.result.indexed
    THEN call.result.chunks
    ELSE <<>>

\* C29: when IndexStage.process (and hence build_index_from_content) reports
\* success for a batch of n chunks with indexed_count = n, all n chunks are
\* in the store afterwards, and n chunks indexed into an empty index give
\* total_documents = n; also when the store took its embedding_dimension
\* from an existing index file and the new embeddings have another length.
C29_IndexedChunksPresent ==
    (call.op \in {"index", "build_index"}) =>
        /\ \A i \in 1..Len(IndexedChunks) :
              /\ GenerateDocumentId(NoMeta, i - 1) \in DOMAIN documents
              /\ documents[GenerateDocumentId(NoMeta, i - 1)].content = IndexedChunks[i]
        /\ (IndexedChunks # <<>> /\ call.pre.store.doc_ids = <<>>) =>
              GetStats(Self).total_documents = Len(IndexedChunks)

\* build_index_from_content opened an index file written with dimension 2,
\* embedded its chunks with dimension 3 and reported them indexed; the
\* store holds no document
C29_Witness ==
    /\ call.op = "build_index"
    /\ call.result.success
    /\ call.result.indexed
    /\ call.pre.file.kind = "json"
    /\ call.pre.file.embedding_dimension # EmbedderDimension
    /\ Len(IndexedChunks) > 0
    /\ GetStats(Self).total_documents = 0
    /\ index_file.documents = <<>>


\* the id the claim gives the chunk at `index`: made of the url, else the
\* source, else 'doc', and of the position
ExpectedId(metadata, index) ==
    IF "url" \in DOMAIN metadata THEN <<metadata.url, "_chunk", index>>
    ELSE IF "source" \in DOMAIN metadata THEN <<metadata.source, index>>
    ELSE <<"doc", index>>

\* C30: the id of a chunk depends only on the url (else the source, else
\* 'doc') of the stage metadata and on the chunk's position: the ids of one
\* batch are pairwise distinct, and a second build with the same url/source
\* into the same index path replaces the documents at the positions both
\* builds have and leaves the first build's documents at higher positions,
\* so that total_documents is the larger of the two chunk counts.
C30_IdsByPosition ==
    (call.op = "index_into" /\ call.result.success) =>
        LET n == Len(call.texts)
            id(i) == ExpectedId(call.metadata, i - 1)
            new == {id(i) : i \in 1..n}
            old == call.pre.store.documents
        IN  /\ \A i, j \in 1..n : i # j => id(i) # id(j)
            /\ DOMAIN documents = DOMAIN old \cup new
            /\ \A i \in 1..n : documents[id(i)].content = call.texts[i]
            /\ \A d \in DOMAIN old \ new : documents[d] = old[d]
            /\ (/\ ~call.before.none
                /\ ExpectedId(call.before.v.metadata, 0) = ExpectedId(call.metadata, 0)
                /\ GetStats(call.pre.store).total_documents = call.before.v.count)
               => GetStats(Self).total_documents = Max(n, call.before.v.count)

\* a build of two chunks under the url u, then a build of one chunk under
\* the url u and a source: the first position is replaced, the second kept
C30_Witness ==
    /\ call.op = "index_into"
    /\ call.result.success
    /\ call.builds = 2
    /\ call.before = Some([metadata |-> [url |-> "u"], count |-> 2])
    /\ call.metadata = [url |-> "u", source |-> "s"]
    /\ Len(call.texts) = 1
    /\ documents[<<"u", "_chunk", 0>>].content = call.texts[1]
    /\ documents[<<"u", "_chunk", 0>>] # call.pre.store.documents[<<"u", "_chunk", 0>>]
    /\ documents[<<"u", "_chunk", 1>>] = call.pre.store.documents[<<"u", "_chunk", 1>>]
    /\ GetStats(Self).total_documents = 2

====
